---- MODULE Spec2Model ----
(***************************************************************************)
(* Token lifecycle of the auth service: accounts, refresh-token records,   *)
(* and the use-case operations Register, Login, RefreshToken, Logout and   *)
(* LogoutAll, each split at its storage calls so that concurrent requests  *)
(* interleave exactly where the database is touched.                       *)
(***************************************************************************)
EXTENDS Integers, FiniteSets, Sequences, TLC

(* ---------------------------- bounds ---------------------------------- *)
\* Refresh tokens generated in one run.
MaxIssued == 3
\* The clock runs over 0..MaxTime.
MaxTime == 3
\* Clock ticks that can pass between a reading of the clock and the storage
\* call that uses the reading.
MaxDrift == 1

(* ------------------------- configuration ------------------------------ *)
\* JWT_REFRESH_TOKEN_DURATION and JWT_ACCESS_TOKEN_DURATION, in clock ticks.
RefreshTokenDuration == 2
AccessTokenDuration == 2

Procs == {"r1", "r2"}
Emails == {"a@x.com", "b@x.com"}
\* Passwords accounts are registered with, and passwords presented at login.
Passwords == {"pw123456"}
LoginPasswords == Passwords \cup {"wrong000"}
Names == {"A"}
\* Salts bcrypt can draw for a new hash.
Salts == {"s1"}
\* Values a client can present as a refresh token: every value the generator
\* can hand out in a run, and 0, a value that is never issued.
TokenValues == 0..MaxIssued
UserIDs == 1..Cardinality(Emails)

(* ----------------------- domain/errors.go ----------------------------- *)
NoErr == "nil"
ErrUserNotFound == "user not found"
ErrUserAlreadyExists == "user already exists"
ErrInvalidCredentials == "invalid credentials"
ErrRefreshTokenNotFound == "refresh token not found"
ErrRefreshTokenExpired == "refresh token expired"
ErrRefreshTokenRevoked == "refresh token revoked"
ErrInvalidToken == "invalid token"
\* Any error of the storage driver that is none of the above (I/O failure,
\* constraint violation); the use case wraps or returns it unchanged.
ErrInternal == "internal error"

None == "none"
\* No row / no value where a record is expected (a nil pointer).
Nil == [nil |-> TRUE]

VARIABLES
    now,            \* time.Now()
    users,          \* rows of table "users"
    refreshTokens,  \* rows of table "refresh_tokens"
    issued,         \* number of refresh tokens generated so far
    req,            \* per request slot: position in the handler, locals, result,
                    \* and whether it failed for an internal cause
    redeemed,       \* per token value: how many RefreshToken calls returned a pair for it
    loggedOut,      \* token values of the records a LogoutAll has covered
    stranded,       \* token values a RefreshToken has revoked without (yet)
                    \* persisting the record that replaces them
    jwtManager      \* the JWTManager built at start-up: keys and token lifetimes

vars == <<now, users, refreshTokens, issued, req, redeemed, loggedOut, stranded,
          jwtManager>>

(* -------------------------- bcrypt ------------------------------------ *)
\* A hash that drops the password.
GenerateFromPassword_NoPassword(password, salt) ==
    [alg |-> "bcrypt", salt |-> salt, digest |-> <<salt, None>>]

\* A "hash" that is the password as it was given.
GenerateFromPassword_Plaintext(password, salt) ==
    [alg |-> "plain", salt |-> None, digest |-> <<None, password>>]

\* bcrypt.GenerateFromPassword: a salted one-way hash, never the password.
GenerateFromPassword(password, salt) ==
    [alg |-> "bcrypt", salt |-> salt, digest |-> <<salt, password>>]

\* bcrypt.GenerateFromPassword when it cannot produce a hash (no entropy for
\* the salt, password too long): the salt it has drawn is None.
HashingFails(salt) == salt = None

\* Errors of bcrypt.CompareHashAndPassword.
ErrMismatchedHashAndPassword == "hashedPassword is not the hash of the given password"
ErrHashTooShort == "hashedSecret too short to be a bcrypted password"

\* A value of column users.password that bcrypt did not produce: the column
\* is plain text, so a row written by an import or by hand can hold one.
MalformedHash == [alg |-> "plain", salt |-> None, digest |-> <<None, "pw123456">>]

\* bcrypt.CompareHashAndPassword: an error for a stored value that is not a
\* bcrypt hash; else nil iff hashing the password with the stored salt gives
\* the stored digest.
CompareHashAndPassword(hash, password) ==
    IF hash.alg # "bcrypt" THEN ErrHashTooShort
    ELSE IF hash.digest = <<hash.salt, password>> THEN NoErr
    ELSE ErrMismatchedHashAndPassword

(* ----------------------- RefreshToken (domain) ------------------------ *)
\* An expiry check that never fires.
IsExpired_Never(rt, t) == FALSE

\* time.Now().After(rt.ExpiresAt)
IsExpired(rt, t) == t > rt.expiresAt

IsValid(rt, t) == ~IsExpired(rt, t) /\ ~rt.isRevoked

(* ----------------------- user repository ------------------------------ *)
\* A lookup that never finds the account.
FindByEmail_Miss(email) == Nil

\* gorm.DeletedAt of a row: NULL until the row is soft-deleted.
NotDeleted == [Valid |-> FALSE, Time |-> 0]

\* SELECT * FROM users WHERE email = ? AND deleted_at IS NULL LIMIT 1
FindByEmail(email) ==
    IF \E u \in users : u.email = email /\ ~u.deletedAt.Valid
    THEN CHOOSE u \in users : u.email = email /\ ~u.deletedAt.Valid
    ELSE Nil

\* SELECT * FROM users WHERE id = ? AND deleted_at IS NULL LIMIT 1
FindByID(id) ==
    IF \E u \in users : u.id = id /\ ~u.deletedAt.Valid
    THEN CHOOSE u \in users : u.id = id /\ ~u.deletedAt.Valid
    ELSE Nil

\* An id generator that hands the newest account's id out again.
NewUserID_Reused == IF users = {} THEN Cardinality(users) + 1 ELSE Cardinality(users)

\* BeforeCreate draws a fresh NanoID; rows are soft-deleted, never removed,
\* so the number of rows names the next unused one.
NewUserID == Cardinality(users) + 1

\* A users table without the unique index on email.
CanCreateUser_NoIndex(email) == TRUE

\* INSERT INTO users: rejected by idx_users_email when the email is taken.
\* The index is not partial: a soft-deleted row still holds its email.
CanCreateUser(email) == \A u \in users : u.email # email

(* -------------------- refresh token repository ------------------------ *)
FindByToken(token) ==
    IF \E r \in refreshTokens : r.token = token
    THEN CHOOSE r \in refreshTokens : r.token = token
    ELSE Nil

\* Revoke that matches every row of the token's owner.
Revoke_AllOfOwner(tokenString, t) ==
    { IF \E x \in refreshTokens : x.token = tokenString /\ x.userID = r.userID
      THEN [r EXCEPT !.isRevoked = TRUE, !.updatedAt = t]
      ELSE r : r \in refreshTokens }

\* Revoke that matches no row (a wrong WHERE clause).
Revoke_NoRow(tokenString, t) == refreshTokens

\* Revoke that flips the flag instead of setting it.
Revoke_Toggle(tokenString, t) ==
    { IF r.token = tokenString
      THEN [r EXCEPT !.isRevoked = ~r.isRevoked, !.updatedAt = t]
      ELSE r : r \in refreshTokens }

\* UPDATE refresh_tokens SET is_revoked = true, updated_at = t WHERE token = ?
\* (gorm sets updated_at on every Update of a model that has UpdatedAt; t is
\* the clock as gorm read it when it built the statement).
Revoke(tokenString, t) ==
    { IF r.token = tokenString
      THEN [r EXCEPT !.isRevoked = TRUE, !.updatedAt = t]
      ELSE r : r \in refreshTokens }

\* A bulk revoke without its WHERE clause.
RevokeAllByUserID_Everyone(userID, t) ==
    { [r EXCEPT !.isRevoked = TRUE, !.updatedAt = t] : r \in refreshTokens }

\* A bulk revoke that stops after the account's oldest record.
RevokeAllByUserID_One(userID, t) ==
    { IF r.userID = userID /\ (\A x \in refreshTokens : x.userID = userID => r.id <= x.id)
      THEN [r EXCEPT !.isRevoked = TRUE, !.updatedAt = t]
      ELSE r : r \in refreshTokens }

\* UPDATE refresh_tokens SET is_revoked = true, updated_at = t WHERE user_id = ?
RevokeAllByUserID(userID, t) ==
    { IF r.userID = userID
      THEN [r EXCEPT !.isRevoked = TRUE, !.updatedAt = t]
      ELSE r : r \in refreshTokens }

\* A sweep that also takes the records expiring at the instant of its reading.
DeleteExpiredRows_Inclusive(t) == { r \in refreshTokens : ~(r.expiresAt <= t) }

\* DELETE FROM refresh_tokens WHERE expires_at < t, t the time.Now() that was
\* evaluated for the statement's argument.
DeleteExpiredRows(t) == { r \in refreshTokens : ~(r.expiresAt < t) }

\* A refresh_tokens table without the unique index on token.
CanCreateToken_NoIndex(token) == TRUE

\* INSERT INTO refresh_tokens: rejected by idx_refresh_tokens_token when the
\* token value is taken.
CanCreateToken(token) == \A r \in refreshTokens : r.token # token

(* --------------------------- JWT manager ------------------------------ *)
\* The lifetime in milliseconds.
Seconds_Milliseconds(d) == d * 450000

\* time.Duration.Seconds, cut to an int: a clock tick is 450 seconds, which
\* makes the access-token lifetime the default 15 minutes.
Seconds(d) == d * 450

\* The RSA key pair NewJWTManager loads: the private key signs, the public
\* key of the same name verifies.
ServiceKey == "service-key"

\* The public key read from JWT_PUBLIC_KEY_PATH: modulus and exponent.
ServicePublicKey == [pair |-> ServiceKey, N |-> 3233, E |-> 65537]

\* NewJWTManager: the loaded keys and the configured lifetimes.
NewJWTManager ==
    [ privateKey |-> [pair |-> ServiceKey],
      publicKey |-> ServicePublicKey,
      accessTokenDuration |-> AccessTokenDuration,
      refreshTokenDuration |-> RefreshTokenDuration ]

GetAccessTokenDuration == jwtManager.accessTokenDuration

\* What a signature covers: the header and every claim.
Payload(token) ==
    << token.alg, token.user_id, token.email, token.iss, token.sub,
       token.iat, token.nbf, token.exp >>

\* A signature made with a key over a payload; it verifies under the paired
\* public key for that payload and for no other.
Sign(key, payload) == [key |-> key, over |-> payload]

\* What a reading of the clock can have shown when the storage call that
\* uses it executes: the reading was taken in the Go process, after the
\* request's previous step (at time t) and before the database ran the
\* statement (now).
Readings(t) == { c \in 0..now : t <= c /\ now <= c + MaxDrift }

\* The readings of the clock one call of generateTokens makes, in the order
\* of the code: time.Now() for exp, for iat and for nbf of the access token
\* (jwt.go:60-62), time.Now() for the expiry of the refresh token
\* (jwt.go:83), and gorm's clock for created_at and updated_at when it builds
\* the INSERT.  The clock does not run backwards; the call started at time t
\* or later and its INSERT executes now.
ClockReads(t) ==
    LET T == Readings(t) IN
    { reads \in [ {"exp", "iat", "nbf", "refresh", "create"} -> T ] :
         /\ reads.exp <= reads.iat /\ reads.iat <= reads.nbf
         /\ reads.nbf <= reads.refresh /\ reads.refresh <= reads.create }

\* An access token that expires the moment it is issued.
GenerateAccessToken_NoLifetime(userID, email, reads) ==
    LET unsigned == [ alg |-> "RS256", user_id |-> userID, email |-> email,
                      iss |-> "auth-service", sub |-> userID,
                      iat |-> reads.iat, nbf |-> reads.nbf, exp |-> reads.exp,
                      sig |-> Nil ] IN
    [unsigned EXCEPT !.sig = Sign(jwtManager.privateKey.pair, Payload(unsigned))]

\* JWTManager.GenerateAccessToken: RS256 over the claims, signed with the
\* service's private key. Each of exp, iat and nbf is its own reading of the
\* clock, cut to the second by jwt.NewNumericDate.
GenerateAccessToken(userID, email, reads) ==
    LET unsigned == [ alg |-> "RS256", user_id |-> userID, email |-> email,
                      iss |-> "auth-service", sub |-> userID,
                      iat |-> reads.iat, nbf |-> reads.nbf,
                      exp |-> reads.exp + jwtManager.accessTokenDuration,
                      sig |-> Nil ] IN
    [unsigned EXCEPT !.sig = Sign(jwtManager.privateKey.pair, Payload(unsigned))]

\* The 64 characters of base64.RawURLEncoding.
Base64URLAlphabet ==
    << "A", "B", "C", "D", "E", "F", "G", "H", "I", "J", "K", "L", "M",
       "N", "O", "P", "Q", "R", "S", "T", "U", "V", "W", "X", "Y", "Z",
       "a", "b", "c", "d", "e", "f", "g", "h", "i", "j", "k", "l", "m",
       "n", "o", "p", "q", "r", "s", "t", "u", "v", "w", "x", "y", "z",
       "0", "1", "2", "3", "4", "5", "6", "7", "8", "9", "-", "_" >>

\* big.Int.Bytes: the big-endian bytes of a number, none for zero.
RECURSIVE Bytes(_)
Bytes(n) == IF n = 0 THEN <<>> ELSE Append(Bytes(n \div 256), n % 256)

\* base64.RawURLEncoding.EncodeToString: three bytes give four characters,
\* a last group of one or two bytes gives two or three, without padding.
RECURSIVE EncodeToString(_)
EncodeToString(b) ==
    LET A(i) == Base64URLAlphabet[i + 1] IN
    IF Len(b) = 0 THEN <<>>
    ELSE IF Len(b) = 1
         THEN << A(b[1] \div 4), A((b[1] % 4) * 16) >>
    ELSE IF Len(b) = 2
         THEN << A(b[1] \div 4), A((b[1] % 4) * 16 + b[2] \div 16),
                 A((b[2] % 16) * 4) >>
    ELSE << A(b[1] \div 4), A((b[1] % 4) * 16 + b[2] \div 16),
            A((b[2] % 16) * 4 + b[3] \div 64), A(b[3] % 64) >>
            \o EncodeToString(SubSeq(b, 4, Len(b)))

\* A key set whose modulus differs from call to call.
GetJWKS_Regenerated ==
    [ keys |-> << [ kty |-> "RSA", use |-> "sig", alg |-> "RS256",
                    n |-> EncodeToString(Bytes(jwtManager.publicKey.N + issued)),
                    e |-> EncodeToString(Bytes(jwtManager.publicKey.E)) ] >> ]

\* JWTManager.GetJWKS: the public key as a set of one JSON Web Key.
GetJWKS ==
    [ keys |-> << [ kty |-> "RSA", use |-> "sig", alg |-> "RS256",
                    n |-> EncodeToString(Bytes(jwtManager.publicKey.N)),
                    e |-> EncodeToString(Bytes(jwtManager.publicKey.E)) ] >> ]

\* A string that does not parse as header.claims.signature.
MalformedToken == [malformed |-> TRUE]

\* Errors of jwt.ParseWithClaims.
ErrTokenMalformed == "token is malformed"
ErrTokenUnverifiable == "token is unverifiable"
ErrTokenSignatureInvalid == "token signature is invalid"
ErrTokenExpired == "token is expired"
ErrTokenNotValidYet == "token is not valid yet"

\* The claims a parsed token carries.
Claims(token) ==
    [ user_id |-> token.user_id, email |-> token.email, iss |-> token.iss,
      sub |-> token.sub, iat |-> token.iat, nbf |-> token.nbf, exp |-> token.exp ]

\* A validation that does not verify the signature.
ValidateToken_Unverified(tokenString, t) ==
    IF tokenString = MalformedToken THEN [claims |-> Nil, err |-> ErrTokenMalformed]
    ELSE IF ~(t < tokenString.exp) THEN [claims |-> Nil, err |-> ErrTokenExpired]
    ELSE IF t < tokenString.nbf THEN [claims |-> Nil, err |-> ErrTokenNotValidYet]
    ELSE [claims |-> Claims(tokenString), err |-> NoErr]

\* A key function that hands out the public key whatever the signing method.
ValidateToken_AnyMethod(tokenString, t) ==
    IF tokenString = MalformedToken THEN [claims |-> Nil, err |-> ErrTokenMalformed]
    ELSE IF tokenString.sig # Sign(jwtManager.publicKey.pair, Payload(tokenString))
         THEN [claims |-> Nil, err |-> ErrTokenSignatureInvalid]
    ELSE IF ~(t < tokenString.exp) THEN [claims |-> Nil, err |-> ErrTokenExpired]
    ELSE IF t < tokenString.nbf THEN [claims |-> Nil, err |-> ErrTokenNotValidYet]
    ELSE [claims |-> Claims(tokenString), err |-> NoErr]

\* A validation that does not look at the expiry.
ValidateToken_NoExpiry(tokenString, t) ==
    IF tokenString = MalformedToken THEN [claims |-> Nil, err |-> ErrTokenMalformed]
    ELSE IF tokenString.alg \notin {"RS256", "RS384", "RS512"}
         THEN [claims |-> Nil, err |-> ErrTokenUnverifiable]
    ELSE IF tokenString.sig # Sign(jwtManager.publicKey.pair, Payload(tokenString))
         THEN [claims |-> Nil, err |-> ErrTokenSignatureInvalid]
    ELSE [claims |-> Claims(tokenString), err |-> NoErr]

\* JWTManager.ValidateToken at time t: parse, refuse a signing method that is
\* not RSA, verify the signature with the public key, then check exp and nbf.
ValidateToken(tokenString, t) ==
    IF tokenString = MalformedToken THEN [claims |-> Nil, err |-> ErrTokenMalformed]
    ELSE IF tokenString.alg \notin {"RS256", "RS384", "RS512"}
         THEN [claims |-> Nil, err |-> ErrTokenUnverifiable]
    ELSE IF tokenString.sig # Sign(jwtManager.publicKey.pair, Payload(tokenString))
         THEN [claims |-> Nil, err |-> ErrTokenSignatureInvalid]
    ELSE IF ~(t < tokenString.exp) THEN [claims |-> Nil, err |-> ErrTokenExpired]
    ELSE IF t < tokenString.nbf THEN [claims |-> Nil, err |-> ErrTokenNotValidYet]
    ELSE [claims |-> Claims(tokenString), err |-> NoErr]

\* A validation that hands the signer's error to the caller.
ValidateAccessToken_PassThrough(token, t) == ValidateToken(token, t)

\* A validation that also wants the account to hold an active refresh token.
ValidateAccessToken_ChecksSession(token, t) ==
    IF ValidateToken(token, t).err # NoErr
    THEN [claims |-> Nil, err |-> ErrInvalidToken]
    ELSE IF \A x \in refreshTokens :
               x.userID = ValidateToken(token, t).claims.user_id => x.isRevoked
    THEN [claims |-> Nil, err |-> ErrInvalidToken]
    ELSE [claims |-> ValidateToken(token, t).claims, err |-> NoErr]

\* authUseCase.ValidateAccessToken at time t: the claims, or ErrInvalidToken
\* for whatever ValidateToken reported.
ValidateAccessToken(token, t) ==
    IF ValidateToken(token, t).err # NoErr
    THEN [claims |-> Nil, err |-> ErrInvalidToken]
    ELSE [claims |-> ValidateToken(token, t).claims, err |-> NoErr]

\* What a client can put in the Authorization header once it holds an access
\* token: the token itself, or something made from it.
Presentations ==
    {"as issued", "signature altered", "other key", "claims altered",
     "HS256", "malformed", "postdated"}

Present(token, kind) ==
    CASE kind = "as issued" -> token
      [] kind = "signature altered" ->
             [token EXCEPT !.sig = Sign(ServiceKey, <<"altered">>)]
      [] kind = "other key" ->
             [token EXCEPT !.sig = Sign("other-key", Payload(token))]
      [] kind = "claims altered" ->
             [token EXCEPT !.user_id = token.user_id + 1, !.sub = token.sub + 1]
      [] kind = "HS256" ->
             LET hs == [token EXCEPT !.alg = "HS256"] IN
             [hs EXCEPT !.sig = Sign("public-key-as-secret", Payload(hs))]
      [] kind = "malformed" -> MalformedToken
      [] kind = "none" ->
             [token EXCEPT !.alg = "none", !.sig = Sign(None, <<>>)]
      [] kind = "none, signature kept" -> [token EXCEPT !.alg = "none"]
      [] kind = "HS256, verifying bytes" ->
             LET hs == [token EXCEPT !.alg = "HS256"] IN
             [hs EXCEPT !.sig = Sign(ServiceKey, Payload(hs))]
      [] kind = "PS256, verifying bytes" ->
             LET ps == [token EXCEPT !.alg = "PS256"] IN
             [ps EXCEPT !.sig = Sign(ServiceKey, Payload(ps))]
      [] kind = "ES256, verifying bytes" ->
             LET es == [token EXCEPT !.alg = "ES256"] IN
             [es EXCEPT !.sig = Sign(ServiceKey, Payload(es))]
      [] kind = "postdated" ->
             LET pd == [token EXCEPT !.iat = now + 1, !.nbf = now + 1,
                                     !.exp = now + 1 + AccessTokenDuration] IN
             [pd EXCEPT !.sig = Sign(ServiceKey, Payload(pd))]

\* Tokens whose header names a signing method that is not *SigningMethodRSA:
\* unsigned, HMAC keyed with the public key, and, for each other family, a
\* signature whose bytes would verify if the public key were applied to them.
Substitutions ==
    {"none", "none, signature kept", "HS256", "HS256, verifying bytes",
     "PS256, verifying bytes", "ES256, verifying bytes"}

\* JWTManager.GenerateRefreshToken: 32 bytes from crypto/rand, hex encoded.
\* A value drawn from 256 bits of entropy has not been drawn before.
GenerateRefreshToken == issued + 1

(* ------------------------- request slots ------------------------------ *)
\* The Authorization header of a request: how many space-separated parts it
\* has (none when the header is absent) and the first of them.
NoHeader == [parts |-> 0, scheme |-> None]
BearerHeader == [parts |-> 2, scheme |-> "Bearer"]
Headers ==
    { NoHeader, BearerHeader,
      [parts |-> 2, scheme |-> "Basic"], [parts |-> 3, scheme |-> "Bearer"] }

\* An empty slot; the numeric fields of a request that has none are 0.
\* Field at is the time the middleware validated the bearer token; status
\* and body are the response of a route that returns no token pair.  Field
\* refreshToken is the row FindByToken returned, field since the time of the
\* request's latest step while it is inside a handler.
Idle ==
    [ pc |-> "idle", op |-> None, email |-> None, password |-> None,
      token |-> 0, userID |-> 0, access |-> Nil,
      user |-> Nil, err |-> None, resp |-> Nil, claims |-> Nil, at |-> 0,
      header |-> NoHeader, status |-> 0, body |-> Nil,
      fault |-> FALSE, refreshToken |-> Nil, since |-> 0 ]

\* return nil, err / return err
Fail(r, e) ==
    [r EXCEPT !.pc = "done", !.user = Nil, !.err = e, !.refreshToken = Nil, !.since = 0]

\* return nil, err for an error of the storage driver or of a library; the
\* slot remembers that the cause of the failure was internal.
Faulted(r) == [Fail(r, ErrInternal) EXCEPT !.fault = TRUE]

\* Requests inside a handler; each may still generate one refresh token.
InFlight == { q \in Procs : req[q].pc \notin {"idle", "done"} }

Quiet == \A q \in Procs : req[q].pc = "idle"

\* A request that can issue a token pair is accepted while the run's supply lasts.
Accept(p) == req[p].pc = "idle" /\ issued + Cardinality(InFlight) < MaxIssued

(* --------------------------- Init ------------------------------------- *)
Init ==
    /\ now = 0
    /\ users = {}
    /\ refreshTokens = {}
    /\ issued = 0
    /\ req = [p \in Procs |-> Idle]
    /\ redeemed = [t \in TokenValues |-> 0]
    /\ loggedOut = {}
    /\ stranded = {}
    /\ jwtManager = NewJWTManager

(* ------------------------- authUseCase -------------------------------- *)
\* Register up to the hashing of the password: FindByEmail, then bcrypt.
Register(p, email, password, name, salt, fail) ==
    /\ Accept(p)
    /\ LET r == [Idle EXCEPT !.op = "Register", !.email = email, !.password = password] IN
       req' = [req EXCEPT ![p] =
           IF fail THEN Faulted(r)
           ELSE IF FindByEmail(email) # Nil THEN Fail(r, ErrUserAlreadyExists)
           ELSE IF HashingFails(salt) THEN Faulted(r)
           ELSE [r EXCEPT !.pc = "create_user", !.since = now,
                          !.user = [ email |-> email,
                                     password |-> GenerateFromPassword(password, salt),
                                     name |-> name ]]]
    /\ UNCHANGED <<now, users, refreshTokens, issued, redeemed, loggedOut, stranded,
                 jwtManager>>

\* Register: userRepo.Create.
RegisterCreate(p, fail) ==
    /\ req[p].pc = "create_user"
    /\ LET r == req[p]
           u == [ id |-> NewUserID, email |-> r.user.email,
                  password |-> r.user.password, name |-> r.user.name,
                  deletedAt |-> NotDeleted ] IN
       IF fail \/ ~CanCreateUser(r.user.email)
       THEN /\ req' = [req EXCEPT ![p] = Faulted(r)]
            /\ UNCHANGED users
       ELSE /\ users' = users \cup {u}
            /\ req' = [req EXCEPT ![p] =
                   [r EXCEPT !.pc = "generate", !.user = u, !.since = now]]
    /\ UNCHANGED <<now, refreshTokens, issued, redeemed, loggedOut, stranded, jwtManager>>

\* Login that reports a missing account as such.
Login_LeaksAbsence(p, email, password, fail) ==
    /\ Accept(p)
    /\ LET r == [Idle EXCEPT !.op = "Login", !.email = email, !.password = password]
           u == FindByEmail(email) IN
       req' = [req EXCEPT ![p] =
           IF fail THEN Faulted(r)
           ELSE IF u = Nil THEN Fail(r, ErrUserNotFound)
           ELSE IF CompareHashAndPassword(u.password, password) # NoErr
                THEN Fail(r, ErrInvalidCredentials)
           ELSE [r EXCEPT !.pc = "generate", !.user = u, !.since = now]]
    /\ UNCHANGED <<now, users, refreshTokens, issued, redeemed, loggedOut, stranded,
                 jwtManager>>

\* Login that turns away an account one of whose refresh tokens is revoked.
Login_RefusesAfterRevocation(p, email, password, fail) ==
    /\ Accept(p)
    /\ LET r == [Idle EXCEPT !.op = "Login", !.email = email, !.password = password]
           u == FindByEmail(email) IN
       req' = [req EXCEPT ![p] =
           IF fail THEN Faulted(r)
           ELSE IF u = Nil THEN Fail(r, ErrInvalidCredentials)
           ELSE IF CompareHashAndPassword(u.password, password) # NoErr
                THEN Fail(r, ErrInvalidCredentials)
           ELSE IF \E x \in refreshTokens : x.userID = u.id /\ x.isRevoked
                THEN Fail(r, ErrInvalidCredentials)
           ELSE [r EXCEPT !.pc = "generate", !.user = u, !.since = now]]
    /\ UNCHANGED <<now, users, refreshTokens, issued, redeemed, loggedOut, stranded,
                 jwtManager>>

\* Login that ends the account's earlier sessions once the password matches.
Login_SingleSession(p, email, password, fail) ==
    /\ Accept(p)
    /\ LET r == [Idle EXCEPT !.op = "Login", !.email = email, !.password = password]
           u == FindByEmail(email)
           cmp == CompareHashAndPassword(u.password, password)
           ok == ~fail /\ u # Nil /\ cmp = NoErr IN
       /\ req' = [req EXCEPT ![p] =
              IF fail THEN Faulted(r)
              ELSE IF u = Nil THEN Fail(r, ErrInvalidCredentials)
              ELSE IF cmp # NoErr
                   THEN [Fail(r, ErrInvalidCredentials)
                            EXCEPT !.fault = (cmp # ErrMismatchedHashAndPassword)]
              ELSE [r EXCEPT !.pc = "generate", !.user = u, !.since = now]]
       /\ refreshTokens' = IF ok THEN RevokeAllByUserID(u.id, now) ELSE refreshTokens
    /\ UNCHANGED <<now, users, issued, redeemed, loggedOut, stranded, jwtManager>>

\* Login up to the password check: FindByEmail, then bcrypt compare.
Login(p, email, password, fail) ==
    /\ Accept(p)
    /\ LET r == [Idle EXCEPT !.op = "Login", !.email = email, !.password = password]
           u == FindByEmail(email)
           cmp == CompareHashAndPassword(u.password, password) IN
       req' = [req EXCEPT ![p] =
           IF fail THEN Faulted(r)
           ELSE IF u = Nil THEN Fail(r, ErrInvalidCredentials)
           ELSE IF cmp # NoErr
                THEN [Fail(r, ErrInvalidCredentials)
                         EXCEPT !.fault = (cmp # ErrMismatchedHashAndPassword)]
           ELSE [r EXCEPT !.pc = "generate", !.user = u, !.since = now]]
    /\ UNCHANGED <<now, users, refreshTokens, issued, redeemed, loggedOut, stranded,
                 jwtManager>>

\* RefreshToken up to the first storage call: FindByToken.  The row it
\* returned is what the request knows of the record from here on.
RefreshToken(p, token, fail) ==
    /\ Accept(p)
    /\ LET r == [Idle EXCEPT !.op = "RefreshToken", !.token = token]
           rt == FindByToken(token) IN
       req' = [req EXCEPT ![p] =
           IF fail THEN Faulted(r)
           ELSE IF rt = Nil THEN Fail(r, ErrInvalidToken)
           ELSE [r EXCEPT !.pc = "is_valid", !.refreshToken = rt, !.since = now]]
    /\ UNCHANGED <<now, users, refreshTokens, issued, redeemed, loggedOut, stranded,
                 jwtManager>>

\* A validity check that looks at the expiry before the revoked flag.
RefreshIsValid_ExpiredFirst(p) ==
    /\ req[p].pc = "is_valid"
    /\ LET r == req[p]
           rt == r.refreshToken IN
       req' = [req EXCEPT ![p] =
           IF ~IsValid(rt, now)
           THEN IF IsExpired(rt, now) THEN Fail(r, ErrRefreshTokenExpired)
                ELSE Fail(r, ErrRefreshTokenRevoked)
           ELSE [r EXCEPT !.pc = "find_user", !.userID = rt.userID,
                          !.refreshToken = Nil, !.since = now]]
    /\ UNCHANGED <<now, users, refreshTokens, issued, redeemed, loggedOut, stranded,
                 jwtManager>>

\* A validity check that deletes the record it finds expired.
RefreshIsValid_DropsExpired(p) ==
    /\ req[p].pc = "is_valid"
    /\ LET r == req[p]
           rt == r.refreshToken IN
       /\ req' = [req EXCEPT ![p] =
              IF ~IsValid(rt, now)
              THEN IF rt.isRevoked THEN Fail(r, ErrRefreshTokenRevoked)
                   ELSE Fail(r, ErrRefreshTokenExpired)
              ELSE [r EXCEPT !.pc = "find_user", !.userID = rt.userID,
                             !.refreshToken = Nil, !.since = now]]
       /\ refreshTokens' = IF ~rt.isRevoked /\ IsExpired(rt, now)
                           THEN { x \in refreshTokens : x.token # rt.token }
                           ELSE refreshTokens
    /\ UNCHANGED <<now, users, issued, redeemed, loggedOut, stranded, jwtManager>>

\* RefreshToken: refreshToken.IsValid() on the row FindByToken returned, with
\* the clock read now (IsExpired); a row that is not valid is reported
\* revoked when its flag says so, expired otherwise.
RefreshIsValid(p) ==
    /\ req[p].pc = "is_valid"
    /\ LET r == req[p]
           rt == r.refreshToken IN
       req' = [req EXCEPT ![p] =
           IF ~IsValid(rt, now)
           THEN IF rt.isRevoked THEN Fail(r, ErrRefreshTokenRevoked)
                ELSE Fail(r, ErrRefreshTokenExpired)
           ELSE [r EXCEPT !.pc = "find_user", !.userID = rt.userID,
                          !.refreshToken = Nil, !.since = now]]
    /\ UNCHANGED <<now, users, refreshTokens, issued, redeemed, loggedOut, stranded,
                 jwtManager>>

\* RefreshToken: userRepo.FindByID.
RefreshFindUser(p, fail) ==
    /\ req[p].pc = "find_user"
    /\ LET r == req[p]
           u == FindByID(r.userID) IN
       req' = [req EXCEPT ![p] =
           IF fail THEN Faulted(r)
           ELSE IF u = Nil THEN Fail(r, ErrUserNotFound)
           ELSE [r EXCEPT !.pc = "revoke", !.user = u, !.since = now]]
    /\ UNCHANGED <<now, users, refreshTokens, issued, redeemed, loggedOut, stranded,
                 jwtManager>>

\* RefreshToken: refreshTokenRepo.Revoke of the presented token.
RefreshRevoke(p, fail) ==
    /\ req[p].pc = "revoke"
    /\ IF fail
       THEN /\ req' = [req EXCEPT ![p] = Faulted(req[p])]
            /\ UNCHANGED <<refreshTokens, stranded>>
       ELSE /\ \E t \in Readings(req[p].since) :
                   refreshTokens' = Revoke(req[p].token, t)
            /\ stranded' = stranded \cup {req[p].token}
            /\ req' = [req EXCEPT ![p] =
                   [req[p] EXCEPT !.pc = "generate", !.since = now]]
    /\ UNCHANGED <<now, users, issued, redeemed, loggedOut, jwtManager>>

\* generateTokens that tries again when refreshTokenRepo.Create fails.
generateTokensWith_Retries(p, tokenString, reads, fail) ==
    /\ req[p].pc = "generate"
    /\ LET r == req[p]
           user == r.user
           refreshToken ==
               [ id |-> issued + 1, userID |-> user.id, token |-> tokenString,
                 expiresAt |-> reads.refresh + jwtManager.refreshTokenDuration,
                 isRevoked |-> FALSE, createdAt |-> reads.create,
                 updatedAt |-> reads.create ] IN
       /\ issued' = issued + 1
       /\ IF fail \/ ~CanCreateToken(tokenString)
          THEN UNCHANGED <<req, refreshTokens, redeemed, stranded>>
          ELSE /\ refreshTokens' = refreshTokens \cup {refreshToken}
               /\ req' = [req EXCEPT ![p] =
                      [r EXCEPT !.pc = "done", !.user = Nil, !.err = NoErr,
                          !.since = 0,
                          !.resp = [ access_token |->
                                         GenerateAccessToken(user.id, user.email, reads),
                                     refresh_token |-> tokenString,
                                     token_type |-> "Bearer",
                                     expires_in |-> Seconds(GetAccessTokenDuration),
                                     user |-> [ id |-> user.id, email |-> user.email,
                                                name |-> user.name ] ]]]
               /\ redeemed' = IF r.op = "RefreshToken"
                              THEN [redeemed EXCEPT ![r.token] = @ + 1]
                              ELSE redeemed
               /\ stranded' = IF r.op = "RefreshToken"
                              THEN stranded \ {r.token}
                              ELSE stranded
    /\ UNCHANGED <<now, users, loggedOut, jwtManager>>

\* generateTokens with the value read from crypto/rand and the readings of
\* the clock given: access token, refresh token, refreshTokenRepo.Create. The
\* step is the INSERT; the readings were taken before it, in the Go process.
generateTokensWith(p, tokenString, reads, fail) ==
    /\ req[p].pc = "generate"
    /\ LET r == req[p]
           user == r.user
           accessToken == GenerateAccessToken(user.id, user.email, reads)
           refreshTokenString == tokenString
           expiresAt == reads.refresh + jwtManager.refreshTokenDuration
           refreshToken ==
               [ id |-> issued + 1, userID |-> user.id, token |-> refreshTokenString,
                 expiresAt |-> expiresAt, isRevoked |-> FALSE,
                 createdAt |-> reads.create, updatedAt |-> reads.create ] IN
       /\ issued' = issued + 1
       /\ IF fail \/ ~CanCreateToken(refreshTokenString)
          THEN /\ req' = [req EXCEPT ![p] = Faulted(r)]
               /\ UNCHANGED <<refreshTokens, redeemed, stranded>>
          ELSE /\ refreshTokens' = refreshTokens \cup {refreshToken}
               /\ req' = [req EXCEPT ![p] =
                      [r EXCEPT !.pc = "done", !.user = Nil, !.err = NoErr,
                          !.since = 0,
                          !.resp = [ access_token |-> accessToken,
                                     refresh_token |-> refreshTokenString,
                                     token_type |-> "Bearer",
                                     expires_in |-> Seconds(GetAccessTokenDuration),
                                     user |-> [ id |-> user.id, email |-> user.email,
                                                name |-> user.name ] ]]]
               /\ redeemed' = IF r.op = "RefreshToken"
                              THEN [redeemed EXCEPT ![r.token] = @ + 1]
                              ELSE redeemed
               /\ stranded' = IF r.op = "RefreshToken"
                              THEN stranded \ {r.token}
                              ELSE stranded
    /\ UNCHANGED <<now, users, loggedOut, jwtManager>>

\* generateTokens when crypto/rand yields a value it has not yielded before,
\* with whatever the clock showed at each reading.
generateTokens(p, fail) ==
    \E reads \in ClockReads(req[p].since) :
        generateTokensWith(p, GenerateRefreshToken, reads, fail)

\* Logout that revokes every record of the token's owner.
Logout_AllOfOwner(p, refreshToken, fail) ==
    /\ req[p].pc = "idle"
    /\ LET r == [Idle EXCEPT !.op = "Logout", !.token = refreshToken] IN
       IF fail
       THEN /\ req' = [req EXCEPT ![p] = Faulted(r)]
            /\ UNCHANGED refreshTokens
       ELSE /\ refreshTokens' =
                   { IF \E x \in refreshTokens : x.token = refreshToken /\ x.userID = y.userID
                     THEN [y EXCEPT !.isRevoked = TRUE, !.updatedAt = now]
                     ELSE y : y \in refreshTokens }
            /\ req' = [req EXCEPT ![p] = Fail(r, NoErr)]
    /\ UNCHANGED <<now, users, issued, redeemed, loggedOut, stranded, jwtManager>>

\* Logout that reports an error when the update matched no active row.
Logout_StrictNotFound(p, refreshToken, fail) ==
    /\ req[p].pc = "idle"
    /\ LET r == [Idle EXCEPT !.op = "Logout", !.token = refreshToken] IN
       IF fail
       THEN /\ req' = [req EXCEPT ![p] = Faulted(r)]
            /\ UNCHANGED refreshTokens
       ELSE /\ \E t \in Readings(0) : refreshTokens' = Revoke(refreshToken, t)
            /\ req' = [req EXCEPT ![p] =
                   IF \E x \in refreshTokens : x.token = refreshToken /\ ~x.isRevoked
                   THEN Fail(r, NoErr)
                   ELSE Fail(r, ErrRefreshTokenNotFound)]
    /\ UNCHANGED <<now, users, issued, redeemed, loggedOut, stranded, jwtManager>>

\* Logout: refreshTokenRepo.Revoke; its error, if any, is the result.  The
\* step is the UPDATE; gorm read the clock for updated_at when it built the
\* statement.
Logout(p, refreshToken, fail) ==
    /\ req[p].pc = "idle"
    /\ LET r == [Idle EXCEPT !.op = "Logout", !.token = refreshToken] IN
       IF fail
       THEN /\ req' = [req EXCEPT ![p] = Faulted(r)]
            /\ UNCHANGED refreshTokens
       ELSE /\ \E t \in Readings(0) : refreshTokens' = Revoke(refreshToken, t)
            /\ req' = [req EXCEPT ![p] = Fail(r, NoErr)]
    /\ UNCHANGED <<now, users, issued, redeemed, loggedOut, stranded, jwtManager>>

\* LogoutAll: refreshTokenRepo.RevokeAllByUserID; its error, if any, is the
\* result.  The step is the UPDATE, which covers the rows the table holds
\* when it executes; gorm read the clock for updated_at when it built the
\* statement.
LogoutAll(p, userID, fail) ==
    /\ req[p].pc = "idle"
    /\ LET r == [Idle EXCEPT !.op = "LogoutAll", !.userID = userID] IN
       IF fail
       THEN /\ req' = [req EXCEPT ![p] = Faulted(r)]
            /\ UNCHANGED <<refreshTokens, loggedOut>>
       ELSE /\ \E t \in Readings(0) : refreshTokens' = RevokeAllByUserID(userID, t)
            /\ loggedOut' = loggedOut \cup
                   { x.token : x \in { y \in refreshTokens : y.userID = userID } }
            /\ req' = [req EXCEPT ![p] = Fail(r, NoErr)]
    /\ UNCHANGED <<now, users, issued, redeemed, stranded, jwtManager>>

\* The handler has written the response; the slot takes the next request.
Return(p) ==
    /\ req[p].pc = "done"
    /\ req' = [req EXCEPT ![p] = Idle]
    /\ UNCHANGED <<now, users, refreshTokens, issued, redeemed, loggedOut, stranded,
                 jwtManager>>

\* refreshTokenRepository.DeleteExpired, the optional periodic sweep.  The
\* step is the DELETE; its argument is an earlier time.Now().
DeleteExpired ==
    /\ \E t \in Readings(0) : refreshTokens' = DeleteExpiredRows(t)
    /\ refreshTokens' # refreshTokens
    /\ UNCHANGED <<now, users, issued, req, redeemed, loggedOut, stranded, jwtManager>>

\* userRepository.Delete: UPDATE users SET deleted_at = t WHERE id = ? AND
\* deleted_at IS NULL, t the clock as gorm read it when it built the
\* statement.  The row stays in the table, and in idx_users_email.
Delete(id) ==
    /\ \E t \in Readings(0) :
           users' = { IF u.id = id /\ ~u.deletedAt.Valid
                      THEN [u EXCEPT !.deletedAt = [Valid |-> TRUE, Time |-> t]]
                      ELSE u : u \in users }
    /\ users' # users
    /\ UNCHANGED <<now, refreshTokens, issued, req, redeemed, loggedOut, stranded,
                 jwtManager>>

\* Names a caller of Update can write.
UpdateNames == Names \cup {"B"}

\* The structs a caller of Update can hold: a row it read, deleted since or
\* not, with its email or its name rewritten.
UpdateInputs ==
    { [u EXCEPT !.email = e, !.name = n] :
          u \in users, e \in Emails, n \in UpdateNames }
    \cup { [u EXCEPT !.email = e, !.name = n, !.deletedAt = NotDeleted] :
              u \in users, e \in Emails, n \in UpdateNames }

\* userRepository.Update: db.Save writes every column of the row with the
\* struct's id, deleted_at included (UPDATE ... WHERE id = ? AND deleted_at IS
\* NULL, then INSERT ... ON CONFLICT (id) DO UPDATE when that matched no row).
\* idx_users_email rejects an email another row holds.
Update(user) ==
    /\ \A u \in users : u.id # user.id => u.email # user.email
    /\ users' = { u \in users : u.id # user.id } \cup {user}
    /\ users' # users
    /\ UNCHANGED <<now, refreshTokens, issued, req, redeemed, loggedOut, stranded,
                 jwtManager>>

\* The clock advances.
Tick ==
    /\ now < MaxTime
    /\ now' = now + 1
    /\ UNCHANGED <<users, refreshTokens, issued, req, redeemed, loggedOut, stranded,
                 jwtManager>>

(* --------------------------- HTTP handler ------------------------------ *)
\* AuthMiddleware on a protected route: the bearer token of the request is
\* validated; its claims, if any, become the request's user id and email.
\* The client at slot q holds a token pair and presents its access token, or
\* something made from it.
AuthMiddleware(p, q, kind) ==
    /\ req[p].pc = "idle"
    /\ req[q].pc = "done" /\ req[q].err = NoErr /\ req[q].resp # Nil
    /\ LET token == Present(req[q].resp.access_token, kind)
           v == ValidateAccessToken(token, now) IN
       req' = [req EXCEPT ![p] =
           [Idle EXCEPT !.pc = "done", !.op = "AuthMiddleware", !.access = token,
                        !.err = v.err, !.claims = v.claims, !.at = now]]
    /\ UNCHANGED <<now, users, refreshTokens, issued, redeemed, loggedOut, stranded,
                 jwtManager>>

\* A middleware that takes the second part of any two-part header as the token.
AuthMiddlewareCheck_AnyScheme(header, token, t) ==
    IF header.parts = 0
    THEN [status |-> 401, error |-> "missing authorization header",
          err |-> None, claims |-> Nil]
    ELSE IF header.parts # 2
    THEN [status |-> 401, error |-> "invalid authorization header format",
          err |-> None, claims |-> Nil]
    ELSE IF ValidateAccessToken(token, t).err # NoErr
    THEN [status |-> 401, error |-> "invalid or expired token",
          err |-> ValidateAccessToken(token, t).err, claims |-> Nil]
    ELSE [status |-> 0, error |-> None,
          err |-> NoErr, claims |-> ValidateAccessToken(token, t).claims]

\* AuthMiddleware as a function of the Authorization header at time t: the
\* 401 it writes, or the claims it stores before calling the next handler.
AuthMiddlewareCheck(header, token, t) ==
    IF header.parts = 0
    THEN [status |-> 401, error |-> "missing authorization header",
          err |-> None, claims |-> Nil]
    ELSE IF header.parts # 2 \/ header.scheme # "Bearer"
    THEN [status |-> 401, error |-> "invalid authorization header format",
          err |-> None, claims |-> Nil]
    ELSE IF ValidateAccessToken(token, t).err # NoErr
    THEN [status |-> 401, error |-> "invalid or expired token",
          err |-> ValidateAccessToken(token, t).err, claims |-> Nil]
    ELSE [status |-> 0, error |-> None,
          err |-> NoErr, claims |-> ValidateAccessToken(token, t).claims]

ProtectedRoutes == {"GET /auth/profile", "POST /auth/logout-all"}

\* A request for a protected route reaches AuthMiddleware. The client at
\* slot q holds a token pair; the request carries the header and, in it, the
\* access token of the pair or something made from it.
ProtectedRoute(p, q, route, header, kind) ==
    /\ req[p].pc = "idle"
    /\ req[q].pc = "done" /\ req[q].err = NoErr /\ req[q].resp # Nil
    /\ header # BearerHeader => kind = "as issued"
    /\ LET token == IF header.parts = 0 THEN Nil
                    ELSE Present(req[q].resp.access_token, kind)
           mw == AuthMiddlewareCheck(header, token, now)
           r == [Idle EXCEPT !.op = route, !.header = header, !.access = token,
                             !.at = now, !.err = mw.err, !.claims = mw.claims] IN
       req' = [req EXCEPT ![p] =
           IF mw.status = 401
           THEN [r EXCEPT !.pc = "done", !.status = 401,
                          !.body = [error |-> mw.error]]
           ELSE [r EXCEPT !.pc = "handler", !.userID = mw.claims.user_id,
                          !.email = mw.claims.email]]
    /\ UNCHANGED <<now, users, refreshTokens, issued, redeemed, loggedOut, stranded,
                 jwtManager>>

\* AuthHandler.LogoutAll behind the middleware: LogoutAll for the user id
\* the middleware stored.  The step is the UPDATE; gorm read the clock for
\* updated_at after the middleware had run and before the statement executed.
LogoutAllHandler(p, fail) ==
    /\ req[p].pc = "handler" /\ req[p].op = "POST /auth/logout-all"
    /\ LET r == req[p]
           userID == r.userID IN
       IF fail
       THEN /\ req' = [req EXCEPT ![p] =
                   [Faulted(r) EXCEPT !.status = 500,
                       !.body = [error |-> "failed to logout from all devices"]]]
            /\ UNCHANGED <<refreshTokens, loggedOut>>
       ELSE /\ \E t \in Readings(r.at) : refreshTokens' = RevokeAllByUserID(userID, t)
            /\ loggedOut' = loggedOut \cup
                   { x.token : x \in { y \in refreshTokens : y.userID = userID } }
            /\ req' = [req EXCEPT ![p] =
                   [r EXCEPT !.pc = "done", !.err = NoErr, !.status = 200,
                       !.body = [message |-> "successfully logged out from all devices"]]]
    /\ UNCHANGED <<now, users, issued, redeemed, stranded, jwtManager>>

\* AuthHandler.GetProfile behind the middleware: GetUserByID for the user id
\* the middleware stored.
GetProfileHandler(p, fail) ==
    /\ req[p].pc = "handler" /\ req[p].op = "GET /auth/profile"
    /\ LET r == req[p]
           user == FindByID(r.userID) IN
       req' = [req EXCEPT ![p] =
           IF fail \/ user = Nil
           THEN [(IF fail THEN Faulted(r) ELSE Fail(r, ErrUserNotFound))
                    EXCEPT !.status = 500,
                           !.body = [error |-> "failed to get user profile"]]
           ELSE [r EXCEPT !.pc = "done", !.err = NoErr, !.status = 200,
                          !.body = [id |-> user.id, email |-> user.email,
                                    name |-> user.name]]]
    /\ UNCHANGED <<now, users, refreshTokens, issued, redeemed, loggedOut, stranded,
                 jwtManager>>

\* AuthHandler.GetJWKS: the key set of the JWT manager.
GetJWKSHandler(p) ==
    /\ req[p].pc = "idle"
    /\ req' = [req EXCEPT ![p] =
           [Idle EXCEPT !.pc = "done", !.op = "GET /.well-known/jwks.json",
                        !.err = NoErr, !.status = 200, !.body = GetJWKS]]
    /\ UNCHANGED <<now, users, refreshTokens, issued, redeemed, loggedOut, stranded,
                 jwtManager>>

\* AuthMiddleware: the status written when it does not call the next handler.
AuthMiddlewareHTTP(r) ==
    IF r.err = NoErr THEN [status |-> 200, body |-> Nil]
    ELSE [status |-> 401, body |-> [error |-> "invalid or expired token"]]

\* AuthHandler.Login: the status and body written for a finished Login.
LoginHTTP(r) ==
    IF r.err = NoErr THEN [status |-> 200, body |-> r.resp]
    ELSE IF r.err = ErrInvalidCredentials
         THEN [status |-> 401, body |-> [error |-> "invalid credentials"]]
    ELSE [status |-> 500, body |-> [error |-> "failed to login"]]

(* ------------------------ specifications ------------------------------ *)
\* A request arrives at slot p and runs up to its first storage call.
\* Accounts are registered for the given emails; a login may name any email.
Arrive(p, emails) ==
    \/ \E e \in emails, pw \in Passwords, n \in Names, s \in Salts :
           Register(p, e, pw, n, s, FALSE)
    \/ \E e \in Emails, pw \in LoginPasswords : Login(p, e, pw, FALSE)
    \/ \E t \in TokenValues : RefreshToken(p, t, FALSE)
    \/ \E t \in TokenValues : Logout(p, t, FALSE)
    \/ \E u \in UserIDs : LogoutAll(p, u, FALSE)

\* The request at slot p makes its next storage call, or returns.
Continue(p) ==
    \/ RegisterCreate(p, FALSE)
    \/ RefreshIsValid(p)
    \/ RefreshFindUser(p, FALSE)
    \/ RefreshRevoke(p, FALSE)
    \/ generateTokens(p, FALSE)
    \/ Return(p)

\* Requests run one at a time over one account, while the clock advances.
Next ==
    \/ Quiet /\ Arrive("r1", {"a@x.com"})
    \/ Continue("r1")
    \/ Tick

Spec == Init /\ [][Next]_vars

\* Requests run one at a time over both accounts, within one reading of the clock.
NextAccounts ==
    \/ Quiet /\ Arrive("r1", Emails)
    \/ Continue("r1")

SpecAccounts == Init /\ [][NextAccounts]_vars

\* Two requests at a time over one account, within one reading of the clock.
NextConc ==
    \/ \E p \in Procs : Arrive(p, {"a@x.com"})
    \/ \E p \in Procs : Continue(p)

SpecConc == Init /\ [][NextConc]_vars

\* One account registers and rotates its refresh tokens at slot r1 while, at
\* slot r2, it logs in, logs out and logs out everywhere; the two
\* requests overlap and the clock advances between any two of their steps.
NextOverlap ==
    \/ \E pw \in Passwords, n \in Names, s \in Salts :
           Register("r1", "a@x.com", pw, n, s, FALSE)
    \/ RegisterCreate("r1", FALSE)
    \/ \E pw \in Passwords : Login("r2", "a@x.com", pw, FALSE)
    \/ \E t \in TokenValues : RefreshToken("r1", t, FALSE)
    \/ RefreshIsValid("r1")
    \/ RefreshFindUser("r1", FALSE)
    \/ RefreshRevoke("r1", FALSE)
    \/ \E p \in Procs : generateTokens(p, FALSE)
    \/ \E t \in TokenValues : Logout("r2", t, FALSE)
    \/ \E u \in UserIDs : LogoutAll("r2", u, FALSE)
    \/ \E p \in Procs : Return(p)
    \/ Tick

SpecOverlap == Init /\ [][NextOverlap]_vars

\* One row was inserted with the created_at of an earlier statement than a
\* row that was inserted before it, or two rows inserted at one time carry
\* created_at values a tick apart from their expiry readings.
RowsOutOfOrder ==
    \E x, y \in refreshTokens :
        /\ x.id < y.id
        /\ \/ y.createdAt < x.createdAt
           \/ y.expiresAt - jwtManager.refreshTokenDuration < x.createdAt

\* A bulk revoke has stamped a row with an updated_at that is older than the
\* row: gorm read the clock before the row was inserted, and the UPDATE ran
\* after.
RevokedBeforeCreated ==
    \E x \in refreshTokens : x.isRevoked /\ x.updatedAt < x.createdAt

\* A RefreshToken has answered "expired" for a record that another request
\* had revoked, before its expiry, between the FindByToken and the IsValid of
\* this one.
ExpiredAnswerOnRevokedRow ==
    \E x \in refreshTokens :
        /\ req["r1"].op = "RefreshToken" /\ req["r1"].pc = "done"
        /\ req["r1"].err = ErrRefreshTokenExpired
        /\ x.token = req["r1"].token
        /\ x.isRevoked /\ x.updatedAt <= x.expiresAt

\* Requests one at a time over one account, with a crypto/rand that may yield
\* any value, one it has yielded before included.
NextCollide ==
    \/ Quiet /\ Arrive("r1", {"a@x.com"})
    \/ RegisterCreate("r1", FALSE)
    \/ RefreshIsValid("r1")
    \/ RefreshFindUser("r1", FALSE)
    \/ RefreshRevoke("r1", FALSE)
    \/ \E t \in TokenValues \ {0}, reads \in ClockReads(req["r1"].since) :
           generateTokensWith("r1", t, reads, FALSE)
    \/ Return("r1")

SpecCollide == Init /\ [][NextCollide]_vars

\* Requests one at a time, with the periodic sweep of expired records.
NextSweep ==
    \/ Next
    \/ DeleteExpired

SpecSweep == Init /\ [][NextSweep]_vars

\* Requests run one at a time over one account while a caller of the user
\* repository rewrites and soft-deletes rows.
NextRepository ==
    \/ Quiet /\ Arrive("r1", {"a@x.com"})
    \/ Continue("r1")
    \/ \E id \in UserIDs : Delete(id)
    \/ \E user \in UpdateInputs : Update(user)

SpecRepository == Init /\ [][NextRepository]_vars

\* One account registers and logs in, one request at a time, while a caller
\* of the user repository soft-deletes rows and the clock advances.
NextDeletion ==
    \/ /\ Quiet
       /\ \/ \E pw \in Passwords, n \in Names, s \in Salts :
                Register("r1", "a@x.com", pw, n, s, FALSE)
          \/ \E pw \in Passwords : Login("r1", "a@x.com", pw, FALSE)
    \/ RegisterCreate("r1", FALSE)
    \/ generateTokens("r1", FALSE)
    \/ Return("r1")
    \/ \E id \in UserIDs : Delete(id)
    \/ Tick

SpecDeletion == Init /\ [][NextDeletion]_vars

\* An account carries a deleted_at that is older than two of its refresh
\* tokens: gorm read the clock, two logins inserted their rows, and the soft
\* delete ran after.
DeletedBeforeTokensCreated ==
    \E u \in users, x, y \in refreshTokens :
        /\ u.deletedAt.Valid /\ x # y
        /\ x.userID = u.id /\ y.userID = u.id
        /\ u.deletedAt.Time < x.createdAt /\ u.deletedAt.Time < y.createdAt

\* An account was soft-deleted and a registration of its email, which passed
\* the lookup, was refused by the index at Create.
DeletedEmailRefusedAtCreate ==
    /\ req["r1"].op = "Register" /\ req["r1"].pc = "done" /\ req["r1"].fault
    /\ \E u \in users : u.email = req["r1"].email /\ u.deletedAt.Valid
    /\ FindByEmail(req["r1"].email) = Nil

\* As Arrive, with a first storage call that can fail and a bcrypt that can
\* fail to hash.
ArriveFaulty(p, emails) ==
    \/ \E e \in emails, pw \in Passwords, n \in Names, s \in Salts \cup {None},
          f \in BOOLEAN : Register(p, e, pw, n, s, f)
    \/ \E e \in Emails, pw \in LoginPasswords, f \in BOOLEAN : Login(p, e, pw, f)
    \/ \E t \in TokenValues, f \in BOOLEAN : RefreshToken(p, t, f)
    \/ \E t \in TokenValues, f \in BOOLEAN : Logout(p, t, f)
    \/ \E u \in UserIDs, f \in BOOLEAN : LogoutAll(p, u, f)

\* As Continue, with storage calls that can fail.
ContinueFaulty(p) ==
    \/ \E f \in BOOLEAN : RegisterCreate(p, f)
    \/ RefreshIsValid(p)
    \/ \E f \in BOOLEAN : RefreshFindUser(p, f)
    \/ \E f \in BOOLEAN : RefreshRevoke(p, f)
    \/ \E f \in BOOLEAN : generateTokens(p, f)
    \/ Return(p)

\* Requests one at a time over one account; any storage call can fail.
NextFault ==
    \/ Quiet /\ ArriveFaulty("r1", {"a@x.com"})
    \/ ContinueFaulty("r1")

SpecFault == Init /\ [][NextFault]_vars

\* As SpecFault, with a handler that, once started, keeps running: fiber runs
\* each handler to its return and nothing in the use case waits.
SpecFaultLive == Init /\ [][NextFault]_vars /\ WF_vars(ContinueFaulty("r1"))

\* Values found in column users.password of a database the service is
\* started on.
StoredHashes == { GenerateFromPassword(pw, s) : pw \in Passwords, s \in Salts }
                    \cup {MalformedHash}

\* The service starts on a database that already holds one account.
InitStored ==
    /\ now = 0
    /\ \E h \in StoredHashes :
           users = { [id |-> 1, email |-> "b@x.com", password |-> h, name |-> "A",
                       deletedAt |-> NotDeleted] }
    /\ refreshTokens = {}
    /\ issued = 0
    /\ req = [p \in Procs |-> Idle]
    /\ redeemed = [t \in TokenValues |-> 0]
    /\ loggedOut = {}
    /\ stranded = {}
    /\ jwtManager = NewJWTManager

SpecStored == InitStored /\ [][NextFault]_vars

\* Accounts register and log in at slot r1 while the clock advances; the
\* holder of the returned pair calls a protected route at slot r2.
NextJWT ==
    \/ /\ req["r1"].pc = "idle"
       /\ \E e \in Emails, pw \in Passwords, n \in Names, s \in Salts :
              Register("r1", e, pw, n, s, FALSE)
    \/ /\ req["r1"].pc = "idle"
       /\ \E e \in Emails, pw \in LoginPasswords : Login("r1", e, pw, FALSE)
    \/ RegisterCreate("r1", FALSE)
    \/ generateTokens("r1", FALSE)
    \/ Return("r1")
    \/ \E kind \in Presentations : AuthMiddleware("r2", "r1", kind)
    \/ Return("r2")
    \/ Tick

SpecJWT == Init /\ [][NextJWT]_vars

\* As NextJWT, for one account, with a holder that presents its access token
\* as issued or with the algorithm of its header replaced.
NextAlg ==
    \/ /\ req["r1"].pc = "idle"
       /\ \E pw \in Passwords, n \in Names, s \in Salts :
              Register("r1", "a@x.com", pw, n, s, FALSE)
    \/ /\ req["r1"].pc = "idle"
       /\ \E pw \in LoginPasswords : Login("r1", "a@x.com", pw, FALSE)
    \/ RegisterCreate("r1", FALSE)
    \/ generateTokens("r1", FALSE)
    \/ Return("r1")
    \/ \E kind \in Substitutions \cup {"as issued"} : AuthMiddleware("r2", "r1", kind)
    \/ Return("r2")
    \/ Tick

SpecAlg == Init /\ [][NextAlg]_vars

\* Every token operation at slot r1 over both accounts, within one reading of
\* the clock, while the holder of the last pair asks for its profile at
\* slot r2.
NextProfile ==
    \/ Arrive("r1", Emails)
    \/ Continue("r1")
    \/ ProtectedRoute("r2", "r1", "GET /auth/profile", BearerHeader, "as issued")
    \/ GetProfileHandler("r2", FALSE)
    \/ Return("r2")

SpecProfile == Init /\ [][NextProfile]_vars

\* A request for a protected route or for the key set arrives at slot p, from
\* the client that holds the pair returned at slot q; or its handler runs.
Guarded(p, q) ==
    \/ \E route \in ProtectedRoutes, header \in Headers, kind \in Presentations :
           ProtectedRoute(p, q, route, header, kind)
    \/ LogoutAllHandler(p, FALSE)
    \/ GetProfileHandler(p, FALSE)
    \/ GetJWKSHandler(p)
    \/ Return(p)

\* Both accounts register and log in at slot r1 while the holder of the
\* last pair calls the protected routes and the key set at slot r2, and the
\* clock advances.
NextRoutes ==
    \/ /\ req["r1"].pc = "idle"
       /\ \E e \in Emails, pw \in Passwords, n \in Names, s \in Salts :
              Register("r1", e, pw, n, s, FALSE)
    \/ /\ req["r1"].pc = "idle"
       /\ \E e \in Emails, pw \in LoginPasswords : Login("r1", e, pw, FALSE)
    \/ RegisterCreate("r1", FALSE)
    \/ generateTokens("r1", FALSE)
    \/ Return("r1")
    \/ Guarded("r2", "r1")
    \/ Tick

SpecRoutes == Init /\ [][NextRoutes]_vars

\* A client registers or logs in at slot r1 and keeps the pair it was given;
\* at slot r2 refresh tokens are rotated and revoked, one request at a time,
\* and the client presents its access token to the middleware, while the
\* clock advances.
NextSessions ==
    \/ \E pw \in Passwords, n \in Names, s \in Salts :
           Register("r1", "a@x.com", pw, n, s, FALSE)
    \/ \E pw \in LoginPasswords : Login("r1", "a@x.com", pw, FALSE)
    \/ RegisterCreate("r1", FALSE)
    \/ generateTokens("r1", FALSE)
    \/ Return("r1")
    \/ \E t \in TokenValues : RefreshToken("r2", t, FALSE)
    \/ RefreshIsValid("r2")
    \/ RefreshFindUser("r2", FALSE)
    \/ RefreshRevoke("r2", FALSE)
    \/ generateTokens("r2", FALSE)
    \/ \E t \in TokenValues : Logout("r2", t, FALSE)
    \/ \E u \in UserIDs : LogoutAll("r2", u, FALSE)
    \/ AuthMiddleware("r2", "r1", "as issued")
    \/ Return("r2")
    \/ Tick

SpecSessions == Init /\ [][NextSessions]_vars

(* ============================ claims =================================== *)
\* The slot's request has passed every check of RefreshToken and is on its
\* way to a new pair.
Accepted(r) == r.op = "RefreshToken" /\ r.pc \in {"find_user", "revoke", "generate"}

\* A request of kind op arrives at slot p in this step.
Arrives(p, op) == req[p].pc = "idle" /\ req'[p].pc # "idle" /\ req'[p].op = op

\* The request at slot p, which holds the row FindByToken returned, checks
\* it with IsValid in this step.
Checks(p) == req[p].pc = "is_valid" /\ req'[p].pc # "is_valid"

\* The slot returns a token pair.
ReturnsPair(r) == r.pc = "done" /\ r.err = NoErr /\ r.resp # Nil

\* C1: run one after another, a RefreshToken presenting a non-revoked,
\* non-expired token is accepted and returns a new pair with a different
\* refresh token; a token is redeemed at most once; and a RefreshToken
\* presenting a token that was already redeemed fails with
\* ErrRefreshTokenRevoked.
C1_SingleUseRotation ==
    /\ [][\A p \in Procs :
            Arrives(p, "RefreshToken") =>
              \A r \in refreshTokens :
                  r.token = req'[p].token
                    => (req'[p].pc = "is_valid" /\ req'[p].refreshToken = r)]_vars
    /\ [][\A p \in Procs :
            Checks(p) =>
              ((\E r \in refreshTokens :
                  r.token = req[p].token /\ ~r.isRevoked /\ now < r.expiresAt)
                => Accepted(req'[p]))]_vars
    /\ [][\A p \in Procs :
            (Accepted(req[p]) /\ req'[p].pc = "done")
              => /\ ReturnsPair(req'[p])
                 /\ req'[p].resp.refresh_token # req[p].token
                 /\ \E r \in refreshTokens' :
                        r.token = req'[p].resp.refresh_token /\ ~r.isRevoked]_vars
    /\ [](\A t \in TokenValues : redeemed[t] <= 1)
    /\ [](\A p \in Procs :
            (req[p].pc = "done" /\ req[p].op = "RefreshToken"
               /\ redeemed[req[p].token] >= 1 /\ req[p].err # NoErr)
              => req[p].err = ErrRefreshTokenRevoked)

\* A second RefreshToken with an already redeemed token has been rejected.
C1_Witness ==
    \E p \in Procs :
        /\ req[p].pc = "done" /\ req[p].op = "RefreshToken"
        /\ redeemed[req[p].token] = 1
        /\ req[p].err = ErrRefreshTokenRevoked

\* C2: however RefreshToken requests presenting the same token value
\* interleave, at most one of them returns a token pair.
C2_RedeemedOnceInEveryInterleaving ==
    \A t \in TokenValues : redeemed[t] <= 1

\* C3: RefreshToken fails with ErrInvalidToken when no record has the
\* presented value, with ErrRefreshTokenRevoked when the record is revoked,
\* with ErrRefreshTokenExpired when it is not revoked and past its expiry;
\* the three errors differ and no pair is returned, no store is changed.
C3_RefreshRejectionReasons ==
    /\ ErrInvalidToken # ErrRefreshTokenRevoked
    /\ ErrInvalidToken # ErrRefreshTokenExpired
    /\ ErrRefreshTokenRevoked # ErrRefreshTokenExpired
    /\ [][\A p \in Procs :
            (Arrives(p, "RefreshToken") \/ Checks(p)) =>
              LET t == req'[p].token
                  rows == { r \in refreshTokens : r.token = t }
                  Rejected(e) ==
                      /\ req'[p].pc = "done" /\ req'[p].err = e /\ req'[p].resp = Nil
                      /\ refreshTokens' = refreshTokens /\ users' = users
              IN  /\ (Arrives(p, "RefreshToken") /\ rows = {})
                        => Rejected(ErrInvalidToken)
                  /\ (Arrives(p, "RefreshToken") /\ rows # {})
                        => (req'[p].pc = "is_valid" /\ req'[p].refreshToken \in rows)
                  /\ Checks(p) =>
                        /\ \A r \in rows : r.isRevoked => Rejected(ErrRefreshTokenRevoked)
                        /\ \A r \in rows : (~r.isRevoked /\ now > r.expiresAt)
                                              => Rejected(ErrRefreshTokenExpired)]_vars

\* A RefreshToken has been rejected because the presented token had expired.
C3_Witness ==
    \E p \in Procs :
        /\ req[p].pc = "done" /\ req[p].op = "RefreshToken"
        /\ req[p].err = ErrRefreshTokenExpired
        /\ \E r \in refreshTokens : r.token = req[p].token /\ ~r.isRevoked

\* C4: a Login that fails for a credential reason gives the same result
\* whether or not an account has the email: ErrInvalidCredentials, the same
\* 401 body, and no refresh-token record created.
C4_LoginIndistinguishable ==
    [][\A p \in Procs :
         Arrives(p, "Login") =>
           LET e == req'[p].email
               pw == req'[p].password
               absent == \A u \in users : u.email # e
               wrong == \E u \in users : u.email = e /\ u.password.digest[2] # pw
           IN  (absent \/ wrong) =>
                 /\ req'[p].pc = "done"
                 /\ req'[p].err = ErrInvalidCredentials
                 /\ req'[p].resp = Nil
                 /\ LoginHTTP(req'[p]) =
                        [status |-> 401, body |-> [error |-> "invalid credentials"]]
                 /\ refreshTokens' = refreshTokens
                 /\ users' = users]_vars

\* A Login with the wrong password for an existing account has been rejected.
C4_Witness ==
    \E p \in Procs :
        /\ req[p].pc = "done" /\ req[p].op = "Login"
        /\ req[p].err = ErrInvalidCredentials
        /\ \E u \in users : u.email = req[p].email /\ u.password.digest[2] # req[p].password

\* C5: a Register for an email that an earlier Register has taken fails with
\* ErrUserAlreadyExists and creates neither an account nor a refresh-token
\* record.
C5_RegisterTwice ==
    [][\A p \in Procs :
         (Arrives(p, "Register") /\ \E u \in users : u.email = req'[p].email) =>
           /\ req'[p].pc = "done"
           /\ req'[p].err = ErrUserAlreadyExists
           /\ req'[p].resp = Nil
           /\ users' = users
           /\ refreshTokens' = refreshTokens]_vars

\* The second Register for an email has been rejected.
C5_Witness ==
    \E p \in Procs :
        /\ req[p].pc = "done" /\ req[p].op = "Register"
        /\ req[p].err = ErrUserAlreadyExists
        /\ Cardinality({ u \in users : u.email = req[p].email }) = 1

\* C6: a record whose revoked flag is set never has it cleared, a record
\* that is revoked or expired is never valid again, and a new record never
\* takes the identity of an earlier one; whatever the operation, the sweep
\* of expired records included.
C6_RevocationMonotonic ==
    [][/\ \A r \in refreshTokens : \A r2 \in refreshTokens' :
            r2.id = r.id =>
              /\ r.isRevoked => r2.isRevoked
              /\ (r.isRevoked \/ now > r.expiresAt)
                    => (r2.isRevoked \/ now' > r2.expiresAt)
              /\ (r.isRevoked \/ now >= r.expiresAt)
                    => (r2.isRevoked \/ now' >= r2.expiresAt)
       /\ \A r2 \in refreshTokens' :
            (\A r \in refreshTokens : r.id # r2.id) => (r2.id > issued /\ ~r2.isRevoked)
      ]_vars

\* One record was revoked some time after it was issued, and the sweep has
\* removed an expired one.
C6_Witness ==
    /\ \E r \in refreshTokens : r.isRevoked /\ r.updatedAt > r.createdAt
    /\ Cardinality(refreshTokens) < issued

\* C7: after LogoutAll for an account, every refresh token the account had
\* at that time is revoked, and a RefreshToken presenting one fails with
\* ErrRefreshTokenRevoked.
C7_LogoutAllRevokesOutstanding ==
    /\ \A r \in refreshTokens : r.token \in loggedOut => r.isRevoked
    /\ \A p \in Procs :
         (req[p].pc = "done" /\ req[p].op = "RefreshToken" /\ req[p].token \in loggedOut)
           => (req[p].err = ErrRefreshTokenRevoked /\ req[p].resp = Nil)

\* A LogoutAll covered two tokens of the account, and a later RefreshToken
\* with the newer one has been rejected.
C7_Witness ==
    \E p \in Procs :
        /\ req[p].pc = "done" /\ req[p].op = "RefreshToken"
        /\ req[p].token \in loggedOut
        /\ \E t \in loggedOut : t < req[p].token
        /\ req[p].err = ErrRefreshTokenRevoked

\* C8: Logout revokes the record of the presented token and leaves every
\* other record, of the same or of another account, exactly as it was; a
\* RefreshToken presenting another active token is still accepted.
C8_LogoutTargetsOneToken ==
    /\ [][\A p \in Procs :
            Arrives(p, "Logout") =>
              LET t == req'[p].token IN
              /\ \A r \in refreshTokens : r.token # t => r \in refreshTokens'
              /\ \A r2 \in refreshTokens' : r2.token # t => r2 \in refreshTokens
              /\ \A r2 \in refreshTokens' : r2.token = t => r2.isRevoked
              /\ Cardinality(refreshTokens') = Cardinality(refreshTokens)]_vars
    /\ [][\A p \in Procs :
            Checks(p) =>
              ((\E r \in refreshTokens :
                   r.token = req[p].token /\ ~r.isRevoked /\ now < r.expiresAt)
                 => Accepted(req'[p]))]_vars

\* A Logout has revoked one token of an account that holds a second, active
\* one, while another account holds a token too.
C8_Witness ==
    \E p \in Procs :
        /\ req[p].pc = "done" /\ req[p].op = "Logout"
        /\ \E r \in refreshTokens :
             /\ r.token = req[p].token /\ r.isRevoked
             /\ \E x \in refreshTokens : x.userID = r.userID /\ ~x.isRevoked
             /\ \E y \in refreshTokens : y.userID # r.userID /\ ~y.isRevoked

\* A record without its updated_at column.
Core(r) ==
    [ id |-> r.id, userID |-> r.userID, token |-> r.token, expiresAt |-> r.expiresAt,
      isRevoked |-> r.isRevoked, createdAt |-> r.createdAt ]

\* C9 as stated: Logout returns no error, and Logout of a token that is
\* already revoked or matches no record leaves the token store unchanged.
C9_LogoutLeavesStoreUnchanged ==
    [][\A p \in Procs :
         Arrives(p, "Logout") =>
           LET rows == { r \in refreshTokens : r.token = req'[p].token } IN
           /\ req'[p].pc = "done" /\ req'[p].err = NoErr
           /\ (\A r \in rows : r.isRevoked) => refreshTokens' = refreshTokens]_vars

\* C9 as amended: Logout returns no error; Logout of a token that matches
\* no record leaves the store unchanged; Logout of an already revoked token
\* changes nothing but the updated_at of that one record.
C9_LogoutIdempotent ==
    [][\A p \in Procs :
         Arrives(p, "Logout") =>
           LET t == req'[p].token
               rows == { r \in refreshTokens : r.token = t } IN
           /\ req'[p].pc = "done" /\ req'[p].err = NoErr
           /\ rows = {} => refreshTokens' = refreshTokens
           /\ (\A r \in rows : r.isRevoked) =>
                /\ { Core(r) : r \in refreshTokens' } = { Core(r) : r \in refreshTokens }
                /\ \A r \in refreshTokens : r.token # t => r \in refreshTokens']_vars

\* A Logout of a token that rotation had already revoked has returned.
C9_Witness ==
    \E p \in Procs :
        /\ req[p].pc = "done" /\ req[p].op = "Logout" /\ req[p].err = NoErr
        /\ redeemed[req[p].token] = 1
        /\ \E r \in refreshTokens : r.token = req[p].token /\ r.isRevoked

\* C10 as stated: a record is valid if and only if it is not revoked and
\* now < expiresAt.
C10_ValidityRule ==
    \A r \in refreshTokens :
        IsValid(r, now) <=> (~r.isRevoked /\ now < r.expiresAt)

\* C11 as stated: whenever a RefreshToken returns, with a pair or with any
\* error, a storage failure in any step included, either the presented
\* token is revoked and a new record of the same account has been persisted,
\* or the presented token's record is as it was and no record was created.
C11_RotationIsAUnit ==
    /\ [][\A p \in Procs :
            ((Arrives(p, "RefreshToken") \/ Checks(p)) /\ req'[p].pc = "done")
              => refreshTokens' = refreshTokens]_vars
    /\ [][\A p \in Procs :
            (Accepted(req[p]) /\ req'[p].pc = "done") =>
              LET t == req[p].token IN
              \/ /\ \E r \in refreshTokens' : r.token = t /\ r.isRevoked
                 /\ \E n \in refreshTokens' \ refreshTokens :
                        n.userID = req[p].userID /\ ~n.isRevoked
              \/ /\ \E r \in refreshTokens' : r.token = t /\ ~r.isRevoked
                 /\ refreshTokens' = refreshTokens]_vars

\* The pair the slot returns is valid now: its refresh token is the value of
\* a valid record of the account, its access token validates with the
\* account's id.
ValidPairFor(r, userID, records, t) ==
    /\ ReturnsPair(r)
    /\ \E x \in records :
           x.token = r.resp.refresh_token /\ x.userID = userID /\ IsValid(x, t)
    /\ ValidateAccessToken(r.resp.access_token, t).err = NoErr
    /\ ValidateAccessToken(r.resp.access_token, t).claims.user_id = userID

\* C12: in every reachable state, storage failures in any step of earlier
\* requests included, an account can log in with its password as soon as
\* the slot is free and storage calls succeed: Login passes its checks, and
\* generateTokens then returns a new valid token pair.
C12_NoPermanentLockout ==
    /\ \A u \in users : \A pw \in Passwords :
          (Accept("r1") /\ CompareHashAndPassword(u.password, pw) = NoErr)
            => ENABLED ( /\ Login("r1", u.email, pw, FALSE)
                         /\ req'["r1"].pc = "generate"
                         /\ req'["r1"].user = u )
    /\ \A p \in Procs :
          (req[p].pc = "generate" /\ req[p].op = "Login")
            => ENABLED ( /\ generateTokens(p, FALSE)
                         /\ ValidPairFor(req'[p], req[p].user.id, refreshTokens', now')
                         /\ req'[p].resp.refresh_token \notin
                                { x.token : x \in refreshTokens } )

\* A RefreshToken revoked the account's token and failed before the new
\* record was persisted, leaving the account without a valid refresh token;
\* a Login has then returned a new valid pair.
C12_Witness ==
    \E p \in Procs :
        /\ req[p].op = "Login"
        /\ \E u \in users :
             /\ u.email = req[p].email
             /\ ValidPairFor(req[p], u.id, refreshTokens, now)
             /\ \E x \in refreshTokens : x.userID = u.id /\ x.token \in stranded
             /\ \A x \in refreshTokens :
                    (x.userID = u.id /\ x.token # req[p].resp.refresh_token)
                      => x.isRevoked

\* C13: for an account that Register created, a Login with the same email
\* and password passes its checks and returns a pair with a valid refresh
\* token, and the access token of that pair is accepted by
\* ValidateAccessToken at every time before its exp, in the response and when
\* the holder presents it to the middleware, with claims that name the
\* account's id and email.
C13_RegisterThenLogin ==
    /\ [][\A p \in Procs :
            Arrives(p, "Login") =>
              \A u \in users :
                (/\ u.email = req'[p].email
                 /\ u.password = GenerateFromPassword(req'[p].password, u.password.salt))
                  => (req'[p].pc = "generate" /\ req'[p].user = u)]_vars
    /\ [][\A p \in Procs :
            (req[p].op = "Login" /\ req[p].pc = "generate" /\ req'[p].pc = "done") =>
              \E u \in users :
                /\ u.email = req[p].email
                /\ ReturnsPair(req'[p])
                /\ \E x \in refreshTokens' :
                       /\ x.token = req'[p].resp.refresh_token
                       /\ x.userID = u.id /\ IsValid(x, now')
                /\ now' < req'[p].resp.access_token.exp =>
                       LET v == ValidateAccessToken(req'[p].resp.access_token, now') IN
                       /\ v.err = NoErr
                       /\ v.claims.user_id = u.id
                       /\ v.claims.email = u.email]_vars
    /\ [][\A p, q \in Procs :
            (/\ Arrives(p, "AuthMiddleware")
             /\ req[q].op = "Login" /\ ReturnsPair(req[q])
             /\ req'[p].access = req[q].resp.access_token
             /\ now < req[q].resp.access_token.exp) =>
              /\ req'[p].err = NoErr
              /\ \E u \in users :
                    /\ u.email = req[q].email
                    /\ req'[p].claims.user_id = u.id
                    /\ req'[p].claims.sub = u.id
                    /\ req'[p].claims.email = u.email]_vars

\* The second account registered, logged in, and the middleware has accepted
\* the access token of that login with claims naming the account.
C13_Witness ==
    /\ req["r1"].op = "Login" /\ ReturnsPair(req["r1"])
    /\ req["r2"].op = "AuthMiddleware" /\ req["r2"].err = NoErr
    /\ req["r2"].access = req["r1"].resp.access_token
    /\ \E u \in users :
          /\ u.id = 2 /\ u.email = req["r1"].email
          /\ req["r2"].claims.user_id = u.id
          /\ req["r2"].claims.email = u.email

\* C14: an access token that GenerateAccessToken produced for an account
\* expires AccessTokenDuration after the time.Now() of its issue (its exp
\* claim; iat and nbf are readings taken after that one, within the same
\* call, which began after the request's previous step and ended before the
\* pair was returned), it is accepted whenever it is presented before that
\* expiry, and
\* the claims returned carry the account's id as user_id and as subject, and
\* the account's email.
C14_IssueValidateRoundTrip ==
    /\ [][\A q \in Procs :
            (req[q].pc = "generate" /\ ReturnsPair(req'[q])) =>
              LET token == req'[q].resp.access_token IN
              /\ req[q].since <= token.exp - AccessTokenDuration
              /\ token.exp - AccessTokenDuration <= token.iat
              /\ token.iat <= token.nbf
              /\ token.nbf <= now /\ now' = now
              /\ token.user_id = req[q].user.id /\ token.sub = req[q].user.id
              /\ token.email = req[q].user.email]_vars
    /\ [][\A p, q \in Procs :
            (/\ Arrives(p, "AuthMiddleware")
             /\ ReturnsPair(req[q])
             /\ req'[p].access = req[q].resp.access_token) =>
              LET token == req[q].resp.access_token
                  account == req[q].resp.user IN
              (now < token.exp) =>
                 /\ req'[p].err = NoErr
                 /\ req'[p].claims.user_id = account.id
                 /\ req'[p].claims.sub = account.id
                 /\ req'[p].claims.email = account.email
                 /\ req'[p].claims.iss = "auth-service"]_vars

\* The middleware has accepted an access token some time after it was
\* issued, one tick before its expiry.
C14_Witness ==
    /\ ReturnsPair(req["r1"])
    /\ req["r2"].op = "AuthMiddleware" /\ req["r2"].err = NoErr
    /\ req["r2"].access = req["r1"].resp.access_token
    /\ req["r2"].claims.user_id = req["r1"].resp.user.id
    /\ req["r2"].claims.iat < req["r2"].at
    /\ req["r2"].at + 1 = req["r2"].claims.exp

\* The signature of a well-formed token verifies under the service's public key.
SignatureVerifies(token) == token.sig = Sign(ServiceKey, Payload(token))

\* C15: an access token whose signature does not verify under the service's
\* public key (signature altered, claims altered after signing, signed with
\* another key) is never accepted: the result is ErrInvalidToken and no
\* claims.
C15_BadSignatureNeverAccepted ==
    \A p \in Procs :
        (/\ req[p].pc = "done" /\ req[p].op = "AuthMiddleware"
         /\ req[p].access # MalformedToken
         /\ ~SignatureVerifies(req[p].access))
          => /\ req[p].err = ErrInvalidToken
             /\ req[p].claims = Nil
             /\ AuthMiddlewareHTTP(req[p]).status = 401

\* The middleware has turned away an unexpired RS256 token signed with a key
\* that is not the service's.
C15_Witness ==
    \E p \in Procs :
        /\ req[p].pc = "done" /\ req[p].op = "AuthMiddleware"
        /\ req[p].access # MalformedToken
        /\ req[p].access.alg = "RS256"
        /\ req[p].access.sig = Sign("other-key", Payload(req[p].access))
        /\ req[p].access.nbf <= req[p].at /\ req[p].at < req[p].access.exp
        /\ req[p].err = ErrInvalidToken /\ req[p].claims = Nil

\* The errors JWTManager.ValidateToken can report.
SignerErrors ==
    { ErrTokenMalformed, ErrTokenUnverifiable, ErrTokenSignatureInvalid,
      ErrTokenExpired, ErrTokenNotValidYet }

\* C16: ValidateAccessToken ends in one of two ways: claims and no error,
\* when ValidateToken accepted the token, or ErrInvalidToken and no claims,
\* whichever error ValidateToken reported (malformed, wrong algorithm, bad
\* signature, expired, not yet valid).
C16_ValidateTwoOutcomes ==
    \A p \in Procs :
        (req[p].pc = "done" /\ req[p].op = "AuthMiddleware") =>
          LET v == ValidateToken(req[p].access, req[p].at) IN
          \/ /\ v.err = NoErr
             /\ req[p].err = NoErr /\ req[p].claims = v.claims /\ v.claims # Nil
          \/ /\ v.err \in SignerErrors
             /\ req[p].err = ErrInvalidToken /\ req[p].claims = Nil

\* The middleware has answered ErrInvalidToken for a genuine token presented
\* after its expiry.
C16_Witness ==
    \E p \in Procs :
        /\ req[p].pc = "done" /\ req[p].op = "AuthMiddleware"
        /\ ValidateToken(req[p].access, req[p].at).err = ErrTokenExpired
        /\ req[p].err = ErrInvalidToken /\ req[p].claims = Nil

\* C17 as stated: a Register, Login or RefreshToken that fails for an
\* internal cause (a storage call failed, bcrypt could not hash, the stored
\* password is not a bcrypt hash) returns neither ErrInvalidCredentials nor
\* ErrInvalidToken.
C17_InternalNeverConflated ==
    \A p \in Procs :
        (/\ req[p].pc = "done"
         /\ req[p].op \in {"Register", "Login", "RefreshToken"}
         /\ req[p].fault)
          => req[p].err \notin {ErrInvalidCredentials, ErrInvalidToken}

\* C18: every Register, Login and RefreshToken that returns without error
\* returns an access token and a refresh token, token_type "Bearer" and
\* expires_in equal to the access-token lifetime in seconds (900 for the 15
\* minutes configured), and the refresh token returned is the value of
\* exactly one record, persisted in this call, not revoked, owned by the
\* account of the request, expiring RefreshTokenDuration after the
\* time.Now() of its generation, a reading of the clock taken after the
\* request's previous step and not after the one that gives created_at, which
\* in turn is not after the INSERT.
C18_TokenPairShape ==
    [][\A p \in Procs :
         (/\ req[p].pc # "done" /\ req'[p].pc = "done"
          /\ req'[p].op \in {"Register", "Login", "RefreshToken"}
          /\ req'[p].err = NoErr) =>
           LET resp == req'[p].resp
               owner == IF req'[p].op = "RefreshToken"
                        THEN { x.userID : x \in { y \in refreshTokens : y.token = req[p].token } }
                        ELSE { u.id : u \in { v \in users : v.email = req[p].email } }
               rows == { x \in refreshTokens' : x.token = resp.refresh_token } IN
           /\ resp # Nil
           /\ resp.access_token \notin {Nil, MalformedToken}
           /\ \E reads \in ClockReads(req[p].since) :
                 resp.access_token =
                     GenerateAccessToken(resp.user.id, resp.user.email, reads)
           /\ resp.refresh_token \in 1..MaxIssued
           /\ resp.token_type = "Bearer"
           /\ resp.expires_in = Seconds(AccessTokenDuration)
           /\ resp.expires_in = 900
           /\ owner = {resp.user.id}
           /\ Cardinality(rows) = 1
           /\ rows \cap refreshTokens = {}
           /\ \A x \in rows : /\ ~x.isRevoked
                              /\ x.userID = resp.user.id
                              /\ req[p].since <= x.expiresAt - RefreshTokenDuration
                              /\ x.expiresAt - RefreshTokenDuration <= x.createdAt
                              /\ x.createdAt <= now /\ now' = now]_vars

\* A RefreshToken has returned a pair some time after the account
\* registered; the clock moved on between the generation of the refresh token
\* and its INSERT.
C18_Witness ==
    \E p \in Procs :
        /\ req[p].op = "RefreshToken" /\ ReturnsPair(req[p])
        /\ req[p].resp.expires_in = 900
        /\ req[p].resp.token_type = "Bearer"
        /\ \E x \in refreshTokens :
             /\ x.token = req[p].resp.refresh_token /\ ~x.isRevoked
             /\ x.createdAt > 0
             /\ x.expiresAt = x.createdAt + RefreshTokenDuration - 1

\* C19: a Register that succeeds changes the stores by one new account row
\* (userRepo.Create) and one new refresh-token record owned by that account
\* (generateTokens); every account and every record that existed before is
\* unchanged, and no other step of Register touches a store.
C19_RegisterFrame ==
    /\ [][\A p \in Procs :
            Arrives(p, "Register") => (users' = users /\ refreshTokens' = refreshTokens)]_vars
    /\ [][\A p \in Procs :
            (req[p].pc = "create_user" /\ req'[p].pc = "generate") =>
              /\ users \subseteq users'
              /\ Cardinality(users' \ users) = 1
              /\ \A n \in users' \ users :
                    /\ n.email = req[p].email
                    /\ \A u \in users : u.id # n.id /\ u.email # n.email
              /\ refreshTokens' = refreshTokens]_vars
    /\ [][\A p \in Procs :
            (/\ req[p].op = "Register" /\ req[p].pc = "generate"
             /\ req'[p].pc = "done" /\ req'[p].err = NoErr) =>
              /\ users' = users
              /\ refreshTokens \subseteq refreshTokens'
              /\ Cardinality(refreshTokens' \ refreshTokens) = 1
              /\ \A n \in refreshTokens' \ refreshTokens :
                    /\ \E u \in users : u.email = req[p].email /\ u.id = n.userID
                    /\ \A x \in refreshTokens : x.id # n.id /\ x.token # n.token
                    /\ \A x \in refreshTokens : x.userID # n.userID]_vars

\* The second account has registered while the first holds refresh-token
\* records, one of them revoked.
C19_Witness ==
    \E p \in Procs :
        /\ req[p].op = "Register" /\ ReturnsPair(req[p])
        /\ Cardinality(users) = 2
        /\ \E x \in refreshTokens :
             /\ x.token = req[p].resp.refresh_token
             /\ x.userID = req[p].resp.user.id
             /\ \E y, z \in refreshTokens :
                   /\ y.userID # x.userID /\ z.userID # x.userID
                   /\ y.isRevoked /\ ~z.isRevoked

\* C20 as stated: on a valid presented token RefreshToken revokes the token,
\* then looks up the owning account, then issues the pair; so the token is
\* revoked by the time the account is looked up, and whenever RefreshToken
\* fails at the account lookup the presented token has been revoked.
C20_RevokeBeforeLookup ==
    /\ [](\A p \in Procs :
            (req[p].op = "RefreshToken" /\ req[p].pc = "find_user") =>
              \E r \in refreshTokens : r.token = req[p].token /\ r.isRevoked)
    /\ [][\A p \in Procs :
            (/\ req[p].op = "RefreshToken" /\ req[p].pc = "find_user"
             /\ req'[p].pc = "done") =>
              \E r \in refreshTokens' : r.token = req[p].token /\ r.isRevoked]_vars

\* The request carries "Authorization: Bearer <token>" with a token that
\* ValidateAccessToken accepts at time t.
CarriesAcceptedToken(r, t) ==
    /\ r.header = BearerHeader
    /\ ValidateAccessToken(r.access, t).err = NoErr

\* C21: a request for GET /auth/profile or POST /auth/logout-all reaches its
\* handler only when it carries "Authorization: Bearer <token>" with a token
\* ValidateAccessToken accepts; any other request is answered 401 and changes
\* no store; the handler answers only requests that passed the middleware;
\* and logout-all revokes the records of the account named in the token's
\* claims and leaves every other record as it was.
C21_ProtectedRoutes ==
    /\ [][\A p \in Procs :
            (\E route \in ProtectedRoutes : Arrives(p, route)) =>
              /\ users' = users /\ refreshTokens' = refreshTokens
              /\ CarriesAcceptedToken(req'[p], now) =>
                    /\ req'[p].pc = "handler"
                    /\ req'[p].userID = Claims(req'[p].access).user_id
              /\ ~CarriesAcceptedToken(req'[p], now) =>
                    /\ req'[p].pc = "done"
                    /\ req'[p].status = 401]_vars
    /\ [][\A p \in Procs :
            (/\ req'[p].op \in ProtectedRoutes
             /\ req'[p] # req[p]
             /\ req'[p].pc = "done" /\ req'[p].status # 401) =>
              /\ req[p].pc = "handler"
              /\ CarriesAcceptedToken(req[p], req[p].at)]_vars
    /\ [][\A p \in Procs :
            (req[p].pc = "handler" /\ req[p].op = "POST /auth/logout-all"
               /\ req'[p].pc = "done") =>
              LET account == Claims(req[p].access).user_id IN
              /\ \A x \in refreshTokens : x.userID # account => x \in refreshTokens'
              /\ \A y \in refreshTokens' : y.userID # account => y \in refreshTokens
              /\ \A y \in refreshTokens' : y.userID = account => y.isRevoked
              /\ users' = users]_vars
    /\ [][\A p \in Procs :
            (req[p].pc = "handler" /\ req[p].op = "GET /auth/profile"
               /\ req'[p].pc = "done") =>
              /\ users' = users /\ refreshTokens' = refreshTokens
              /\ req'[p].status = 200 => req'[p].body.id = Claims(req[p].access).user_id]_vars

\* POST /auth/logout-all with the second account's access token has revoked
\* that account's records while the first account still holds an active one.
C21_Witness ==
    \E p \in Procs :
        /\ req[p].pc = "done" /\ req[p].op = "POST /auth/logout-all"
        /\ req[p].status = 200
        /\ req[p].claims.user_id = 2
        /\ \E x \in refreshTokens : x.userID = 2 /\ x.isRevoked
        /\ \A x \in refreshTokens : x.userID = 2 => x.isRevoked
        /\ \E y \in refreshTokens : y.userID = 1 /\ ~y.isRevoked

\* C22: no operation changes the key material, and every answer of
\* GET /.well-known/jwks.json is the same set of exactly one key with kty "RSA",
\* use "sig", alg "RS256" and the base64url modulus and exponent of the
\* service's public key.
C22_KeySetStable ==
    /\ [][jwtManager' = jwtManager]_vars
    /\ [](jwtManager = NewJWTManager)
    /\ [](\A p \in Procs :
            (req[p].pc = "done" /\ req[p].op = "GET /.well-known/jwks.json") =>
              /\ req[p].status = 200
              /\ Len(req[p].body.keys) = 1
              /\ req[p].body.keys[1] =
                    [kty |-> "RSA", use |-> "sig", alg |-> "RS256",
                     n |-> <<"D", "K", "E">>, e |-> <<"A", "Q", "A", "B">>])

\* The key set is served after tokens were issued and a logout-all revoked
\* one of them.
C22_Witness ==
    \E p \in Procs :
        /\ req[p].pc = "done" /\ req[p].op = "GET /.well-known/jwks.json"
        /\ issued >= 2
        /\ \E x \in refreshTokens : x.isRevoked

\* C23: no two accounts share an email, in every reachable state, also when
\* Register requests for the same email are interleaved.
C23_EmailUnique ==
    \A u \in users : \A v \in users : u.email = v.email => u = v

\* Two Register requests for the same email both passed the existence check;
\* one created the account and the other was turned away by the insert.
C23_Witness ==
    \E p \in Procs : \E q \in Procs \ {p} :
        /\ req[p].op = "Register" /\ req[p].pc = "done" /\ req[p].fault
        /\ req[q].op = "Register" /\ req[q].pc \in {"generate", "done"}
        /\ req[q].err # ErrUserAlreadyExists
        /\ ~req[q].fault
        /\ Cardinality(users) = 1

\* C24: no two refresh-token records hold the same token value; a Create
\* whose value is already stored fails and the request returns no pair (a
\* returned pair's refresh token was in no record before and is in exactly
\* the one record added); and a successful Refresh returns a refresh token
\* different from the one presented.
C24_TokenValuesUnique ==
    /\ [](\A x \in refreshTokens : \A y \in refreshTokens :
              x.token = y.token => x = y)
    /\ [][\A p \in Procs :
            (req[p].pc = "generate" /\ req'[p].pc = "done") =>
              IF ReturnsPair(req'[p])
              THEN /\ \A x \in refreshTokens : x.token # req'[p].resp.refresh_token
                   /\ \E y \in refreshTokens' :
                         /\ y.token = req'[p].resp.refresh_token
                         /\ refreshTokens' = refreshTokens \cup {y}
              ELSE /\ refreshTokens' = refreshTokens
                   /\ req'[p].resp = Nil
                   /\ req'[p].err = ErrInternal]_vars
    /\ [](\A p \in Procs :
            (req[p].op = "RefreshToken" /\ ReturnsPair(req[p])) =>
              req[p].resp.refresh_token # req[p].token)

\* A Refresh whose new value collided with a stored one has failed: fewer
\* records are stored than were generated, and the request holds no pair.
C24_Witness ==
    \E p \in Procs :
        /\ req[p].pc = "done" /\ req[p].op = "RefreshToken"
        /\ req[p].fault /\ req[p].resp = Nil
        /\ Cardinality(refreshTokens) < issued
        /\ \E x \in refreshTokens : x.token = req[p].token

\* C25: a Refresh whose record, as FindByToken returned it, is both revoked
\* and past its expiry is rejected with ErrRefreshTokenRevoked;
\* ErrRefreshTokenExpired is returned only for a record that FindByToken
\* returned not revoked (and that is past its expiry when IsValid reads the
\* clock), whatever other requests do in between.
C25_RevokedBeforeExpired ==
    [][\A p \in Procs :
         /\ Arrives(p, "RefreshToken") =>
               /\ req'[p].err # ErrRefreshTokenExpired
               /\ req'[p].pc = "is_valid" =>
                     req'[p].refreshToken = FindByToken(req'[p].token)
         /\ Checks(p) =>
               LET rt == req[p].refreshToken IN
               /\ (rt.isRevoked /\ now > rt.expiresAt) =>
                     (req'[p].pc = "done" /\ req'[p].err = ErrRefreshTokenRevoked)
               /\ req'[p].err = ErrRefreshTokenExpired =>
                     (~rt.isRevoked /\ now > rt.expiresAt)]_vars

\* A token that was revoked and has since expired was presented and turned
\* away as revoked.
C25_Witness ==
    \E p \in Procs : \E x \in refreshTokens :
        /\ req[p].pc = "done" /\ req[p].op = "RefreshToken"
        /\ req[p].err = ErrRefreshTokenRevoked
        /\ x.token = req[p].token
        /\ x.isRevoked /\ now > x.expiresAt

\* C26: a Refresh rejected with ErrInvalidToken, ErrRefreshTokenRevoked or
\* ErrRefreshTokenExpired has changed neither the accounts nor the
\* refresh-token records.
C26_RejectedRefreshFrame ==
    [][\A p \in Procs :
         (/\ Arrives(p, "RefreshToken") \/ Checks(p)
          /\ req'[p].err \in {ErrInvalidToken, ErrRefreshTokenRevoked,
                               ErrRefreshTokenExpired}) =>
           /\ req'[p].pc = "done"
           /\ req'[p].resp = Nil
           /\ users' = users
           /\ refreshTokens' = refreshTokens]_vars

\* An expired token was presented and rejected, and its record is still stored.
C26_Witness ==
    \E p \in Procs : \E x \in refreshTokens :
        /\ req[p].pc = "done" /\ req[p].op = "RefreshToken"
        /\ req[p].err = ErrRefreshTokenExpired
        /\ x.token = req[p].token /\ ~x.isRevoked /\ now > x.expiresAt

\* The refresh tokens of an account that a Refresh would accept.
ValidTokensOf(store, userID, t) ==
    { x \in store : x.userID = userID /\ ~x.isRevoked /\ ~(t > x.expiresAt) }

\* C27: a successful Refresh(t) revokes exactly one record, the one holding
\* t, and creates exactly one record, owned by the same account; every other
\* record and every account is unchanged; run one request at a time, the
\* owner's number of valid tokens goes down by one at the revocation and up
\* by one at the creation, and no other account's records are touched.
C27_RefreshFrame ==
    /\ [][\A p \in Procs :
            (req[p].op = "RefreshToken" /\ req[p].pc = "revoke"
               /\ req'[p].pc = "generate") =>
              \E x \in refreshTokens : \E y \in refreshTokens' :
                /\ x.token = req[p].token /\ ~x.isRevoked
                /\ \E t \in Readings(req[p].since) :
                       y = [x EXCEPT !.isRevoked = TRUE, !.updatedAt = t]
                /\ refreshTokens' = (refreshTokens \ {x}) \cup {y}
                /\ users' = users
                /\ Cardinality(ValidTokensOf(refreshTokens', x.userID, now))
                     = Cardinality(ValidTokensOf(refreshTokens, x.userID, now)) - 1]_vars
    /\ [][\A p \in Procs :
            (req[p].op = "RefreshToken" /\ req[p].pc = "generate"
               /\ ReturnsPair(req'[p])) =>
              \E x \in refreshTokens : \E n \in refreshTokens' :
                /\ x.token = req[p].token /\ x.isRevoked
                /\ n \notin refreshTokens
                /\ refreshTokens' = refreshTokens \cup {n}
                /\ n.userID = x.userID /\ ~n.isRevoked
                /\ n.token = req'[p].resp.refresh_token
                /\ users' = users
                /\ Cardinality(ValidTokensOf(refreshTokens', x.userID, now))
                     = Cardinality(ValidTokensOf(refreshTokens, x.userID, now)) + 1]_vars
    /\ [][\A p \in Procs :
            (req[p].op = "RefreshToken" /\ req[p].pc \in {"find_user", "revoke", "generate"}
               /\ req'[p] # req[p]) =>
              \A x \in refreshTokens \cup refreshTokens' :
                 x.userID # req[p].userID =>
                    (x \in refreshTokens /\ x \in refreshTokens')]_vars
    /\ [][\A p \in Procs :
            (Arrives(p, "RefreshToken") \/ Checks(p)
               \/ (req[p].op = "RefreshToken" /\ req[p].pc = "find_user"
                     /\ req'[p] # req[p])) =>
              (users' = users /\ refreshTokens' = refreshTokens)]_vars

\* A Refresh of the first account's token has returned a pair: that token is
\* revoked, the new one is active and owned by the same account, and the
\* second account's token is still active.
C27_Witness ==
    \E p \in Procs : \E x \in refreshTokens : \E n \in refreshTokens :
        /\ req[p].op = "RefreshToken" /\ ReturnsPair(req[p])
        /\ x.token = req[p].token /\ x.isRevoked
        /\ n.token = req[p].resp.refresh_token /\ ~n.isRevoked
        /\ n.userID = x.userID
        /\ \E z \in refreshTokens : z.userID # x.userID /\ ~z.isRevoked

\* C28: a Login that succeeds adds exactly one refresh-token record, owned by
\* the account logged in to, and leaves every account and every record that
\* existed before unchanged; a Login that fails changes nothing.
C28_LoginFrame ==
    /\ [][\A p \in Procs :
            Arrives(p, "Login") => (users' = users /\ refreshTokens' = refreshTokens)]_vars
    /\ [][\A p \in Procs :
            (req[p].op = "Login" /\ req[p].pc = "generate" /\ req'[p].pc = "done") =>
              /\ users' = users
              /\ IF ReturnsPair(req'[p])
                 THEN \E n \in refreshTokens' :
                        /\ n \notin refreshTokens
                        /\ refreshTokens' = refreshTokens \cup {n}
                        /\ ~n.isRevoked
                        /\ n.token = req'[p].resp.refresh_token
                        /\ \E u \in users : u.email = req[p].email /\ u.id = n.userID
                 ELSE refreshTokens' = refreshTokens]_vars
    /\ [](\A p \in Procs :
            (req[p].op = "Login" /\ req[p].pc = "done" /\ req[p].err # NoErr) =>
               req[p].resp = Nil)

\* A Login has returned a pair while the same account still holds the active
\* token of its registration and the other account holds an active token.
C28_Witness ==
    \E p \in Procs : \E n \in refreshTokens : \E x \in refreshTokens :
        /\ req[p].op = "Login" /\ ReturnsPair(req[p])
        /\ n.token = req[p].resp.refresh_token
        /\ x.userID = n.userID /\ x # n /\ ~x.isRevoked
        /\ \E z \in refreshTokens : z.userID # n.userID /\ ~z.isRevoked

\* C29: LogoutAll(a) leaves every record owned by another account exactly as
\* it was, creates and deletes no record, and touches no account; a valid
\* token of another account presented to Refresh afterwards is still
\* accepted.
C29_LogoutAllFrame ==
    /\ [][\A p \in Procs :
            Arrives(p, "LogoutAll") =>
              LET a == req'[p].userID IN
              /\ \A x \in refreshTokens : x.userID # a => x \in refreshTokens'
              /\ \A y \in refreshTokens' : y.userID # a => y \in refreshTokens
              /\ { x.id : x \in refreshTokens' } = { x.id : x \in refreshTokens }
              /\ Cardinality(refreshTokens') = Cardinality(refreshTokens)
              /\ \A x \in refreshTokens : \E y \in refreshTokens' :
                    /\ y.id = x.id /\ y.token = x.token /\ y.userID = x.userID
                    /\ y.expiresAt = x.expiresAt /\ y.createdAt = x.createdAt
              /\ users' = users]_vars
    /\ [][\A p \in Procs :
            Checks(p) =>
              \A x \in refreshTokens :
                (/\ x.token = req[p].token
                 /\ \E t \in loggedOut : \E z \in refreshTokens :
                       z.token = t /\ z.userID # x.userID
                 /\ x.token \notin loggedOut
                 /\ ~x.isRevoked /\ ~(now > x.expiresAt))
                  => req'[p].pc = "find_user"]_vars

\* After a LogoutAll of the first account, the second account's token was
\* presented to Refresh and a new pair was returned.
C29_Witness ==
    \E p \in Procs : \E x \in refreshTokens : \E z \in refreshTokens :
        /\ req[p].op = "RefreshToken" /\ ReturnsPair(req[p])
        /\ x.token = req[p].token /\ x.userID = 2
        /\ z.userID = 1 /\ z.token \in loggedOut /\ z.isRevoked
        /\ z.id < x.id

\* C30: the outcome of ValidateAccessToken depends on the token and the clock
\* only, not on the refresh-token records: an access token presented as it
\* was issued is accepted exactly while the time is before its own expiry,
\* whatever Logout, LogoutAll or rotation did to the refresh tokens since,
\* the claims returned are the token's, and validating changes no store.
C30_AccessTokenOutlivesSession ==
    [][\A p \in Procs : Arrives(p, "AuthMiddleware") =>
         LET token == req'[p].access IN
         /\ \E q \in Procs : ReturnsPair(req[q]) /\ req[q].resp.access_token = token
         /\ (req'[p].err = NoErr) <=> (now < token.exp)
         /\ req'[p].err = NoErr =>
               /\ req'[p].claims.user_id = token.user_id
               /\ req'[p].claims.email = token.email
         /\ req'[p].err # NoErr => req'[p].err = ErrInvalidToken
         /\ users' = users /\ refreshTokens' = refreshTokens]_vars

\* An access token was accepted, some time after it was issued, while the
\* refresh token issued with it and every other refresh token of the
\* account are revoked.
C30_Witness ==
    \E p \in Procs : \E q \in Procs :
        /\ req[p].pc = "done" /\ req[p].op = "AuthMiddleware" /\ req[p].err = NoErr
        /\ ReturnsPair(req[q]) /\ req[q].resp.access_token = req[p].access
        /\ req[p].at > req[p].claims.iat
        /\ \E x \in refreshTokens :
              x.token = req[q].resp.refresh_token /\ x.isRevoked
        /\ \A x \in refreshTokens :
              x.userID = req[p].claims.user_id => x.isRevoked

\* An access token was accepted after the refresh token issued with it was
\* rotated: that one is revoked and its successor is active.
C30_WitnessRotation ==
    \E p \in Procs : \E q \in Procs :
        /\ req[p].pc = "done" /\ req[p].op = "AuthMiddleware" /\ req[p].err = NoErr
        /\ ReturnsPair(req[q]) /\ req[q].resp.access_token = req[p].access
        /\ redeemed[req[q].resp.refresh_token] = 1
        /\ \E x \in refreshTokens :
              x.userID = req[p].claims.user_id /\ ~x.isRevoked

\* C31 as stated: in every interleaving, once a LogoutAll has covered a
\* token, a Refresh that presented that token and passed its validity check
\* before the LogoutAll ran persists no new valid refresh token for the
\* account.
C31_LogoutAllStopsInFlightRefresh ==
    [][\A p \in Procs :
         (/\ req[p].op = "RefreshToken" /\ req[p].pc = "generate"
          /\ req[p].token \in loggedOut) =>
           \A n \in refreshTokens' \ refreshTokens :
              n.userID = req[p].userID => n.isRevoked]_vars

\* C32 as stated: a Register that fails because an account with its email
\* exists, at the existence check or at the insert, returns
\* ErrUserAlreadyExists, also when two Registers for one email both passed
\* the existence check before either created the account.
C32_RegisterRaceReportsExists ==
    [][\A p \in Procs :
         (/\ req'[p].op = "Register"
          /\ req[p].pc \in {"idle", "create_user"}
          /\ req'[p].pc = "done" /\ req'[p].err # NoErr
          /\ \E u \in users : u.email = req'[p].email) =>
           req'[p].err = ErrUserAlreadyExists]_vars

\* C33 as stated: a Register that found no account with its email and then
\* returns an error, from hashing, from userRepo.Create or from generateTokens,
\* leaves the accounts as they were: no account with that email exists
\* afterwards, so the email can be registered again.
C33_FailedRegisterLeavesNoAccount ==
    [][\A p \in Procs :
         (/\ req'[p].op = "Register"
          /\ \/ req[p].pc \in {"create_user", "generate"}
             \/ req[p].pc = "idle" /\ FindByEmail(req'[p].email) = Nil
          /\ req'[p].pc = "done" /\ req'[p].err # NoErr) =>
           \A u \in users' : u.email # req'[p].email]_vars

\* C34: a step that removes refresh-token records (DeleteExpired) removes
\* exactly those with expiresAt < now, revoked or not, now being the
\* time.Now() the sweep read for its statement, and changes nothing else; no
\* record that IsValid accepts when the statement executes is removed, so a
\* token Refresh would accept before the sweep is found and accepted after it.
C34_DeleteExpiredExact ==
    [][(\E r \in refreshTokens : \A y \in refreshTokens' : y.id # r.id) =>
         /\ \E t \in Readings(0) :
               /\ refreshTokens' = { r \in refreshTokens : ~(r.expiresAt < t) }
               /\ \A r \in refreshTokens :
                     (r.expiresAt < t) => (r \notin refreshTokens')
         /\ \A r \in refreshTokens :
               IsValid(r, now) =>
                 /\ r \in refreshTokens'
                 /\ \A y \in refreshTokens' : y.token = r.token => y = r
         /\ users' = users /\ now' = now /\ req' = req]_vars

\* The sweep has removed a record (fewer are stored than were created)
\* at a time when another record was at the instant of its expiry, which the
\* validity rule still accepts; that record is stored still.
C34_Witness ==
    /\ Cardinality(refreshTokens) < issued
    /\ \E x \in refreshTokens :
          /\ x.expiresAt = now /\ IsValid(x, now)
          /\ x.createdAt < now

\* How far a request has come: the number of its storage calls that are
\* behind it is bounded by this.
Progress(pc) ==
    CASE pc = "idle" -> 0
      [] pc = "create_user" -> 1
      [] pc = "is_valid" -> 1
      [] pc = "find_user" -> 2
      [] pc = "revoke" -> 3
      [] pc = "generate" -> 4
      [] pc = "handler" -> 4
      [] pc = "done" -> 5

\* C35: every request ends after at most five steps with a result or an
\* error: each step of a request moves it forward, so no storage call is made
\* twice; a storage call that fails ends the request at once, with the
\* error; nothing touches a store or the token generator without moving a
\* request forward; and a request that has started does return.
C35_BoundedNoRetry ==
    /\ [][\A p \in Procs :
            (req'[p] # req[p] /\ req[p].pc # "done") =>
              Progress(req'[p].pc) > Progress(req[p].pc)]_vars
    /\ [][\A p \in Procs :
            (req'[p] # req[p] /\ req'[p].fault) =>
              (req'[p].pc = "done" /\ req'[p].err # NoErr /\ req'[p].resp = Nil)]_vars
    /\ [][(users' # users \/ refreshTokens' # refreshTokens \/ issued' # issued) =>
            \E p \in Procs : Progress(req'[p].pc) > Progress(req[p].pc)]_vars
    /\ [](\A p \in Procs : req[p].pc = "done" => req[p].err # None)
    /\ \A p \in Procs : (req[p].pc \notin {"idle", "done"}) ~> (req[p].pc = "done")

\* A Refresh whose last storage call failed has returned the error: the
\* presented token is revoked, no record was created, nothing was tried again.
C35_Witness ==
    \E p \in Procs :
        /\ req[p].pc = "done" /\ req[p].op = "RefreshToken"
        /\ req[p].fault /\ req[p].err = ErrInternal
        /\ req[p].token \in stranded
        /\ Cardinality(refreshTokens) < issued

\* The signing methods of type *jwt.SigningMethodRSA.
RSAFamily == {"RS256", "RS384", "RS512"}

\* C36: a token whose header names an algorithm outside the RSA signature
\* family ("none", HMAC, RSA-PSS, ECDSA) is never accepted, whatever its
\* signature, bytes that would verify under the public key included: the
\* key function refuses it before the public key is applied (the signer's
\* error is "unverifiable", not "signature invalid"), and ValidateAccessToken
\* returns ErrInvalidToken and no claims.
C36_NonRSARejected ==
    \A p \in Procs :
        (/\ req[p].pc = "done" /\ req[p].op = "AuthMiddleware"
         /\ req[p].access # MalformedToken
         /\ req[p].access.alg \notin RSAFamily) =>
          /\ req[p].err = ErrInvalidToken
          /\ req[p].claims = Nil
          /\ ValidateToken(req[p].access, req[p].at).err = ErrTokenUnverifiable
          /\ AuthMiddlewareHTTP(req[p]).status = 401

\* The middleware has turned away an unexpired token declaring HS256 whose
\* signature bytes would verify under the service's public key.
C36_Witness ==
    \E p \in Procs :
        /\ req[p].pc = "done" /\ req[p].op = "AuthMiddleware"
        /\ req[p].access # MalformedToken
        /\ req[p].access.alg = "HS256"
        /\ SignatureVerifies(req[p].access)
        /\ req[p].access.nbf <= req[p].at /\ req[p].at < req[p].access.exp
        /\ req[p].err = ErrInvalidToken /\ req[p].claims = Nil

\* C37: the password column of every account holds a salted bcrypt hash of
\* the password given to the Register that created it, never that password;
\* userRepo.Create stores the hash of the request's password; and the
\* responses of Register, Login and Refresh (token pair with id, email and
\* name of the user), the claims of the access token and the profile (id,
\* email, name) have no field for the password or its hash.
C37_NoPlaintextPassword ==
    /\ [](\A u \in users :
             /\ u.password.alg = "bcrypt"
             /\ u.password.salt \in Salts
             /\ \E pw \in Passwords : u.password.digest = <<u.password.salt, pw>>)
    /\ [][\A p \in Procs :
            (req[p].pc = "create_user" /\ req'[p].pc = "generate") =>
              \A n \in users' \ users :
                 /\ n.password.alg = "bcrypt"
                 /\ n.password.salt \in Salts
                 /\ n.password.digest = <<n.password.salt, req[p].password>>]_vars
    /\ [][\A u \in users : u \in users']_vars
    /\ [](\A p \in Procs :
            ReturnsPair(req[p]) =>
              /\ req[p].op \in {"Register", "Login", "RefreshToken"}
              /\ DOMAIN req[p].resp =
                    {"access_token", "refresh_token", "token_type", "expires_in", "user"}
              /\ DOMAIN req[p].resp.user = {"id", "email", "name"}
              /\ DOMAIN req[p].resp.access_token =
                    {"alg", "user_id", "email", "iss", "sub", "iat", "nbf", "exp", "sig"}
              /\ req[p].resp.refresh_token \in TokenValues)
    /\ [](\A p \in Procs :
            (req[p].pc = "done" /\ req[p].op = "GET /auth/profile"
               /\ req[p].status = 200) =>
              DOMAIN req[p].body = {"id", "email", "name"})

\* The holder of a pair returned by Refresh has been served its profile.
C37_Witness ==
    \E p \in Procs : \E q \in Procs : \E u \in users :
        /\ req[p].pc = "done" /\ req[p].op = "GET /auth/profile"
        /\ req[p].status = 200
        /\ req[q].op = "RefreshToken" /\ ReturnsPair(req[q])
        /\ u.id = req[p].body.id /\ u.email = req[p].body.email
        /\ u.password.digest = <<"s1", "pw123456">>

====
